---------------------------- MODULE Spec2Model ----------------------------
(***************************************************************************)
(* Model of the geometry-dsl compiler: lexer, parser, typechecker,         *)
(* polygon geometry, AST -> IR lowering, IR evaluator and GLSL emitter.    *)
(*                                                                         *)
(* Text is a sequence of one-character strings.  A float is a decimal      *)
(* [m |-> mantissa, e |-> number of fraction digits] kept normalised (no   *)
(* trailing zero in the fraction), so that two lexemes denote the same     *)
(* float exactly when their decimals are equal.  Python's None is the      *)
(* empty sequence and a present value v is <<v>>.                          *)
(***************************************************************************)
EXTENDS Integers, Sequences, FiniteSets, TLC

VARIABLES pc, src, tokens, ast, typ, ir, glsl, val, pt, err

vars == <<pc, src, tokens, ast, typ, ir, glsl, val, pt, err>>

(***************************************************************************)
(* Bounds.                                                                 *)
(***************************************************************************)
MaxSrcLen == 3      \* longest exhaustively enumerated source string
MaxTokLen == 4      \* longest exhaustively enumerated token stream (without EOF)
MaxArgs == 3        \* longest argument list of the calls given to the typechecker
MaxCallArgs == 2    \* longest argument list of the generated calls given to the pipeline
FracDigits == 2     \* fraction digits kept by the arithmetic of lowering and evaluation

None == << >>
Some(x) == << x >>

\* Bind([x \in {e} |-> body]) is body with x standing for the value of e:
\* a local variable of the code that is read more than once
Bind(f) == f[CHOOSE x \in DOMAIN f : TRUE]

RECURSIVE Pow10(_)
Pow10(n) == IF n = 0 THEN 1 ELSE 10 * Pow10(n - 1)

Abs(x) == IF x < 0 THEN -x ELSE x
Min2(a, b) == IF a <= b THEN a ELSE b
Max2(a, b) == IF a >= b THEN a ELSE b

(***************************************************************************)
(* Characters (str.isdigit, str.isalpha, str.isalnum on the ASCII range).  *)
(***************************************************************************)
Digits == {"0", "1", "2", "3", "4", "5", "6", "7", "8", "9"}
Letters == {"a", "b", "c", "d", "e", "f", "g", "h", "i", "j", "k", "l", "m",
            "n", "o", "p", "q", "r", "s", "t", "u", "v", "w", "x", "y", "z", "D"}
IsDigit(ch) == ch \in Digits
IsAlpha(ch) == ch \in Letters
IsAlnum(ch) == IsDigit(ch) \/ IsAlpha(ch)

DigitVal(ch) ==
    CASE ch = "0" -> 0 [] ch = "1" -> 1 [] ch = "2" -> 2 [] ch = "3" -> 3
      [] ch = "4" -> 4 [] ch = "5" -> 5 [] ch = "6" -> 6 [] ch = "7" -> 7
      [] ch = "8" -> 8 [] ch = "9" -> 9

(***************************************************************************)
(* Floats as normalised decimals.                                          *)
(***************************************************************************)
RECURSIVE NormDec(_, _)
NormDec(m, e) ==
    IF e > 0 /\ m % 10 = 0 THEN NormDec(m \div 10, e - 1) ELSE [m |-> m, e |-> e]

Dec(m, e) == NormDec(m, e)
Zero == Dec(0, 0)

RECURSIVE DigitsToInt(_)
DigitsToInt(ds) ==
    IF ds = << >> THEN 0
    ELSE 10 * DigitsToInt(SubSeq(ds, 1, Len(ds) - 1)) + DigitVal(ds[Len(ds)])

DotPositions(lex) == {k \in 1..Len(lex) : lex[k] = "."}

\* float(lex) for a lexeme of ASCII digits and dots: None stands for ValueError.
PyFloatOf(lex, dots) ==
    IF \/ Cardinality(dots) > 1
       \/ Len(lex) - Cardinality(dots) = 0
       \/ \E k \in 1..Len(lex) : ~(IsDigit(lex[k]) \/ lex[k] = ".")
    THEN None
    ELSE Some(Dec(DigitsToInt(SelectSeq(lex, IsDigit)),
                  IF dots = {} THEN 0 ELSE Len(lex) - (CHOOSE k \in dots : TRUE)))

PyFloat(lex) == PyFloatOf(lex, DotPositions(lex))

(***************************************************************************)
(* Errors.                                                                 *)
(***************************************************************************)
\* idx, expected and actual are what a message interpolates; -1 and "" when
\* the message does not mention them.
ErrFull(kind, msg, line, col, idx, expected, actual) ==
    [kind |-> kind, msg |-> msg, line |-> line, col |-> col,
     idx |-> idx, expected |-> expected, actual |-> actual]
Err(kind, msg, line, col) == ErrFull(kind, msg, line, col, -1, "", "")
NoErr == Err("none", "", 0, 0)
Ok(v) == [ok |-> TRUE, val |-> v, err |-> NoErr]
Fail(e) == [ok |-> FALSE, val |-> None, err |-> e]

(***************************************************************************)
(* Lexer (dsl_lexer.py).  A lexer state is [i, line, col] over src.        *)
(***************************************************************************)
Token(kind, lexeme, value, line, col) ==
    [kind |-> kind, lexeme |-> lexeme, value |-> value, line |-> line, col |-> col]

LexerInit == [i |-> 0, line |-> 1, col |-> 1]

LexPeek(s, L) == IF L.i < Len(s) THEN s[L.i + 1] ELSE ""

\* _advance keeping the column across a newline
LexAdvanceKeepingCol(s, L) ==
    [i |-> L.i + 1, line |-> L.line + (IF LexPeek(s, L) = "\n" THEN 1 ELSE 0), col |-> L.col + 1]

LexAdvance(s, L) ==
    IF LexPeek(s, L) = "\n"
    THEN [i |-> L.i + 1, line |-> L.line + 1, col |-> 1]
    ELSE [i |-> L.i + 1, line |-> L.line, col |-> L.col + 1]

\* the lexer state after advancing from L to index j over characters that are
\* not newlines
AdvanceTo(L, j) == [i |-> j, line |-> L.line, col |-> L.col + (j - L.i)]

\* the least index j >= L.i at which a loop advancing over the characters
\* in run(k) stops: the end of the source or a character outside the run
LoopEnd(s, L, run) ==
    CHOOSE j \in L.i..Len(s) :
        /\ \A k \in (L.i + 1)..j : k \in run
        /\ (j = Len(s) \/ (j + 1) \notin run)

\* while self._peek() and self._peek() != "\n": self._advance()
SkipComment(s, L) ==
    AdvanceTo(L, LoopEnd(s, L, {k \in 1..Len(s) : s[k] # "\n"}))

RECURSIVE _skip_whitespace_and_comments(_, _), SkipAt(_, _, _)
_skip_whitespace_and_comments(s, L) == SkipAt(s, L, LexPeek(s, L))

\* one pass of the loop, ch being self._peek()
SkipAt(s, L, ch) ==
    CASE ch = "" -> L
      [] ch \in {" ", "\t", "\r", "\n"} -> _skip_whitespace_and_comments(s, LexAdvance(s, L))
      [] ch = "#" -> _skip_whitespace_and_comments(s, SkipComment(s, L))
      [] OTHER -> L

\* the scanning loop of _number: digits, and the first dot met, are consumed;
\* returns the lexer state after the lexeme
NumberScan(s, L, sawDot) ==
    AdvanceTo(L, LoopEnd(s, L,
        {k \in 1..Len(s) :
            \/ IsDigit(s[k])
            \/ /\ s[k] = "." /\ ~sawDot
               /\ \A m \in (L.i + 1)..(k - 1) : s[m] # "."}))

\* the NUMBER token of the lexeme with value v, or the error of float()
NumberToken(L, L2, lex, v) ==
    IF v = None
    THEN [ok |-> FALSE, L |-> L2, tok |-> None,
          err |-> Err("LexerError", "Invalid number", L2.line, L.col)]
    ELSE [ok |-> TRUE, L |-> L2,
          tok |-> Some(Token("NUMBER", lex, v, L2.line, L.col)), err |-> NoErr]

\* the digits before the first dot
NumberWhole(lex, dots) ==
    IF dots = {} THEN lex ELSE SubSeq(lex, 1, (CHOOSE k \in dots : TRUE) - 1)

NumberLexemeTruncating(L, L2, lex) ==
    NumberToken(L, L2, lex, PyFloat(NumberWhole(lex, DotPositions(lex))))

\* value = float(lexeme)
NumberLexeme(L, L2, lex) == NumberToken(L, L2, lex, PyFloat(lex))

NumberFromTruncating(s, L, L2) == NumberLexemeTruncating(L, L2, SubSeq(s, L.i + 1, L2.i))

\* lexeme = self.src[start:self.i]
NumberFrom(s, L, L2) == NumberLexeme(L, L2, SubSeq(s, L.i + 1, L2.i))

\* _number converting only the digits before the dot
_number_truncating(s, L) == NumberFromTruncating(s, L, NumberScan(s, L, FALSE))

_number(s, L) == NumberFrom(s, L, NumberScan(s, L, FALSE))

\* while self._peek().isalnum() or self._peek() == "_": self._advance()
IdentScan(s, L) ==
    AdvanceTo(L, LoopEnd(s, L, {k \in 1..Len(s) : IsAlnum(s[k]) \/ s[k] = "_"}))

IdentFromShort(s, L, L2) ==
    [L |-> L2, tok |-> Token("IDENT", SubSeq(s, L.i + 1, L2.i - 1), None, L2.line, L.col)]

\* lexeme = self.src[start:self.i]
IdentFrom(s, L, L2) ==
    [L |-> L2, tok |-> Token("IDENT", SubSeq(s, L.i + 1, L2.i), None, L2.line, L.col)]

\* _ident slicing the lexeme one character short
_ident_short(s, L) == IdentFromShort(s, L, IdentScan(s, L))

_ident(s, L) == IdentFrom(s, L, IdentScan(s, L))

StartsNumberAt(s, L, ch) ==
    \/ IsDigit(ch)
    \/ (ch = "." /\ L.i + 1 < Len(s) /\ IsDigit(s[L.i + 2]))

StartsNumber(s, L) == StartsNumberAt(s, L, LexPeek(s, L))

\* one iteration of the loop of tokenize: blanks and comments are skipped and
\* one token is scanned; done is set once EOF is appended or an error raised
Scanned(L, tok) == [ok |-> TRUE, done |-> FALSE, L |-> L, toks |-> <<tok>>, err |-> NoErr]

ScannedNumber(r) ==
    IF r.ok THEN Scanned(r.L, r.tok[1])
    ELSE [ok |-> FALSE, done |-> TRUE, L |-> r.L, toks |-> << >>, err |-> r.err]

ScannedIdent(r) == Scanned(r.L, r.tok)

ScannedPunct(ch, L2) ==
    Scanned(L2, Token(CASE ch = "(" -> "LPAREN" [] ch = ")" -> "RPAREN" [] ch = "," -> "COMMA",
                      <<ch>>, None, L2.line, L2.col - 1))

\* the token starting at character ch of lexer state L
ScanAt(s, L, ch) ==
    CASE ch = "" ->
            [ok |-> TRUE, done |-> TRUE, L |-> L,
             toks |-> <<Token("EOF", << >>, None, L.line, L.col)>>, err |-> NoErr]
      [] StartsNumber(s, L) -> ScannedNumber(_number(s, L))
      [] IsAlpha(ch) \/ ch = "_" -> ScannedIdent(_ident(s, L))
      [] ch \in {"(", ")", ","} -> ScannedPunct(ch, LexAdvance(s, L))
      [] OTHER ->
            [ok |-> FALSE, done |-> TRUE, L |-> L, toks |-> << >>,
             err |-> Err("LexerError", "Unexpected character", L.line, L.col)]

ScanFrom(s, L) == ScanAt(s, L, LexPeek(s, L))

NextToken(s, L0) == ScanFrom(s, _skip_whitespace_and_comments(s, L0))

\* up to n iterations of the loop from lexer state L0, ending at EOF or at an
\* error.  The iterations are taken in two halves, so that the evaluation
\* nests log n deep instead of n deep.
RECURSIVE TokenizeFrom(_, _, _), TokenizeRest(_, _, _)
TokenizeFrom(s, L0, n) ==
    IF n <= 1 THEN NextToken(s, L0)
    ELSE TokenizeRest(s, n - n \div 2, TokenizeFrom(s, L0, n \div 2))

\* the tokens of the second half appended to those of the first
TokenizeJoin(a, b) ==
    [ok |-> b.ok, done |-> b.done, L |-> b.L,
     toks |-> IF b.ok THEN a.toks \o b.toks ELSE << >>, err |-> b.err]

TokenizeRest(s, n, a) ==
    IF a.done THEN a ELSE TokenizeJoin(a, TokenizeFrom(s, a.L, n))

TokenizeResult(r) == IF r.ok THEN Ok(r.toks) ELSE Fail(r.err)

\* every iteration before the one that appends EOF consumes a character
tokenize(s) == TokenizeResult(TokenizeFrom(s, LexerInit, Len(s) + 1))

(***************************************************************************)
(* Identifiers of the language, as lexemes.                                *)
(***************************************************************************)
S_vec2 == <<"v", "e", "c", "2">>
S_vec3 == <<"v", "e", "c", "3">>
S_sphere == <<"s", "p", "h", "e", "r", "e">>
S_cylinder == <<"c", "y", "l", "i", "n", "d", "e", "r">>
S_box == <<"b", "o", "x">>
S_hex_nut == <<"h", "e", "x", "_", "n", "u", "t">>
S_circle == <<"c", "i", "r", "c", "l", "e">>
S_polygon == <<"p", "o", "l", "y", "g", "o", "n">>
S_line == <<"l", "i", "n", "e">>
S_polyline == <<"p", "o", "l", "y", "l", "i", "n", "e">>
S_helix == <<"h", "e", "l", "i", "x">>
S_union == <<"u", "n", "i", "o", "n">>
S_difference == <<"d", "i", "f", "f", "e", "r", "e", "n", "c", "e">>
S_rotate == <<"r", "o", "t", "a", "t", "e">>
S_translate == <<"t", "r", "a", "n", "s", "l", "a", "t", "e">>
S_offset == <<"o", "f", "f", "s", "e", "t">>
S_extrude == <<"e", "x", "t", "r", "u", "d", "e">>
S_sweep == <<"s", "w", "e", "e", "p">>
S_blend2D == <<"b", "l", "e", "n", "d", "2", "D">>
S_invalid_func == <<"i", "n", "v", "a", "l", "i", "d", "_", "f", "u", "n", "c">>

(***************************************************************************)
(* AST (dsl_ast.py).  Vec2/Vec3 keep their components in args.             *)
(***************************************************************************)
Number(v) == [tag |-> "Number", name |-> << >>, value |-> v, args |-> << >>]
Vec3(x, y, z) == [tag |-> "Vec3", name |-> << >>, value |-> Zero, args |-> <<x, y, z>>]
Vec2(x, y) == [tag |-> "Vec2", name |-> << >>, value |-> Zero, args |-> <<x, y>>]
Call(name, args) == [tag |-> "Call", name |-> name, value |-> Zero, args |-> args]

(***************************************************************************)
(* Parser (dsl_parser.py).  The parser state is the index i into toks.     *)
(* A result is [ok, node, i, err].                                         *)
(***************************************************************************)
ParsePeek(toks, i) == toks[i + 1]

POk(node, i) == [ok |-> TRUE, node |-> Some(node), i |-> i, err |-> NoErr]
PFail(e, i) == [ok |-> FALSE, node |-> None, i |-> i, err |-> e]

ExpectAt(i, kind, tok) ==
    IF tok.kind # kind
    THEN PFail(ErrFull("ParserError", "Expected", tok.line, tok.col, -1, kind, tok.kind), i)
    ELSE [ok |-> TRUE, node |-> None, i |-> i + 1, err |-> NoErr]

\* _expect(kind): the index after the token, or the error
_expect(toks, i, kind) == ExpectAt(i, kind, ParsePeek(toks, i))

\* the node of a call of name on args, closed by the token expected at rp
ParseNode(name, args, rp) ==
    IF ~rp.ok THEN rp
    ELSE CASE name = S_vec3 ->
                 IF Len(args) # 3
                 THEN PFail(Err("ParserError", "vec3 expects 3 arguments", 0, 0), rp.i)
                 ELSE POk(Vec3(args[1], args[2], args[3]), rp.i)
           [] name = S_vec2 ->
                 IF Len(args) # 2
                 THEN PFail(Err("ParserError", "vec2 expects 2 arguments", 0, 0), rp.i)
                 ELSE POk(Vec2(args[1], args[2]), rp.i)
           [] OTHER -> POk(Call(name, args), rp.i)

\* self._expect("RPAREN") after the arguments
ParseClose(toks, name, as) ==
    IF ~as.ok THEN PFail(as.err, as.i)
    ELSE ParseNode(name, as.args, _expect(toks, as.i, "RPAREN"))

RECURSIVE parse_expr(_, _), ParseAt(_, _, _), ParseCall(_, _, _), ParseArgs(_, _, _),
          ParseArgsNext(_, _, _)
\* the `while True` loop collecting the arguments of a call
ParseArgs(toks, i, args) == ParseArgsNext(toks, args, parse_expr(toks, i))

ParseArgsNext(toks, args, r) ==
    IF ~r.ok THEN [ok |-> FALSE, args |-> args, i |-> r.i, err |-> r.err]
    ELSE IF ParsePeek(toks, r.i).kind = "COMMA"
         THEN ParseArgs(toks, r.i + 1, Append(args, r.node[1]))
         ELSE [ok |-> TRUE, args |-> Append(args, r.node[1]), i |-> r.i, err |-> NoErr]

\* the argument list after self._expect("LPAREN")
ParseCall(toks, name, lp) ==
    IF ~lp.ok THEN lp
    ELSE ParseClose(toks, name,
             IF ParsePeek(toks, lp.i).kind # "RPAREN"
             THEN ParseArgs(toks, lp.i, << >>)
             ELSE [ok |-> TRUE, args |-> << >>, i |-> lp.i, err |-> NoErr])

ParseAt(toks, i, tok) ==
    CASE tok.kind = "NUMBER" ->
            POk(Number(IF tok.value = None THEN Zero ELSE tok.value[1]), i + 1)
      [] tok.kind = "IDENT" -> ParseCall(toks, tok.lexeme, _expect(toks, i + 1, "LPAREN"))
      [] OTHER ->
            PFail(ErrFull("ParserError", "Unexpected token", tok.line, tok.col, -1, "", tok.kind), i)

parse_expr(toks, i) == ParseAt(toks, i, ParsePeek(toks, i))

ParseTrailing(i, tok) ==
    PFail(ErrFull("ParserError", "Unexpected token", tok.line, tok.col, -1, "", tok.kind), i)

\* the check for EOF after the expression
ParseEnd(toks, r) ==
    IF ~r.ok THEN r
    ELSE IF ParsePeek(toks, r.i).kind # "EOF" THEN ParseTrailing(r.i, ParsePeek(toks, r.i))
    ELSE r

\* parse without the check for a trailing token
parse_no_eof(toks) == parse_expr(toks, 0)

parse(toks) == ParseEnd(toks, parse_expr(toks, 0))

(***************************************************************************)
(* Typechecker (dsl_typecheck.py).                                         *)
(***************************************************************************)
F32 == "f32"
VEC3 == "vec3"
VEC2 == "vec2"
FIELD == "field"
POLY2D == "poly2d"
CIRCLE2D == "circle2d"
PATH == "path"

Sig(args, ret) == [args |-> args, ret |-> ret]

\* SIGS with the row of offset copied from translate
SIGS_offset_vec3 ==
    (S_sphere :> Sig(<<F32>>, FIELD)) @@
    (S_cylinder :> Sig(<<F32, F32>>, FIELD)) @@
    (S_box :> Sig(<<VEC3>>, FIELD)) @@
    (S_hex_nut :> Sig(<<F32, F32, F32>>, FIELD)) @@
    (S_difference :> Sig(<<FIELD, FIELD>>, FIELD)) @@
    (S_rotate :> Sig(<<FIELD, VEC3>>, FIELD)) @@
    (S_translate :> Sig(<<FIELD, VEC3>>, FIELD)) @@
    (S_offset :> Sig(<<FIELD, VEC3>>, FIELD)) @@
    (S_vec2 :> Sig(<<F32, F32>>, VEC2)) @@
    (S_vec3 :> Sig(<<F32, F32, F32>>, VEC3))

SIGS ==
    (S_sphere :> Sig(<<F32>>, FIELD)) @@
    (S_cylinder :> Sig(<<F32, F32>>, FIELD)) @@
    (S_box :> Sig(<<VEC3>>, FIELD)) @@
    (S_hex_nut :> Sig(<<F32, F32, F32>>, FIELD)) @@
    (S_difference :> Sig(<<FIELD, FIELD>>, FIELD)) @@
    (S_rotate :> Sig(<<FIELD, VEC3>>, FIELD)) @@
    (S_translate :> Sig(<<FIELD, VEC3>>, FIELD)) @@
    (S_offset :> Sig(<<FIELD, F32>>, FIELD)) @@
    (S_vec2 :> Sig(<<F32, F32>>, VEC2)) @@
    (S_vec3 :> Sig(<<F32, F32, F32>>, VEC3))

TOk(t) == [ok |-> TRUE, ty |-> t, err |-> NoErr]
TFail(e) == [ok |-> FALSE, ty |-> "", err |-> e]
TypeErr(msg) == Err("TypeError", msg, 0, 0)
\* "<name> arg <idx> expects <expected>, got <actual>"
ArgErr(idx, expected, actual) ==
    ErrFull("TypeError", "arg expects, got", 0, 0, idx, expected, actual)
\* "<name> arg <idx> expects <expected>"
ArgErrNoGot(idx, expected) ==
    ErrFull("TypeError", "arg expects", 0, 0, idx, expected, "")

RECURSIVE type_of(_), CheckArgs(_, _, _), CheckComps(_, _, _)
\* `for idx, arg in enumerate(args)`: every argument from index k (0-based)
\* on has the type exp[k+1]; the first failure is the error raised
CheckArgs(args, exp, k) ==
    IF k >= Len(args) THEN NoErr
    ELSE Bind([got \in {type_of(args[k + 1])} |->
            IF ~got.ok THEN got.err
            ELSE IF got.ty # exp[k + 1] THEN ArgErr(k, exp[k + 1], got.ty)
            ELSE CheckArgs(args, exp, k + 1)])

\* `for comp in (expr.x, ...)` of a vector literal
CheckComps(comps, msg, k) ==
    IF k > Len(comps) THEN NoErr
    ELSE Bind([got \in {type_of(comps[k])} |->
            IF ~got.ok THEN got.err
            ELSE IF got.ty # F32 THEN ErrFull("TypeError", msg, 0, 0, -1, F32, "")
            ELSE CheckComps(comps, msg, k + 1)])

type_of(expr) ==
    IF expr.tag = "Number" THEN TOk(F32)
    ELSE IF expr.tag = "Vec3"
    THEN Bind([e \in {CheckComps(expr.args, "vec3 components must be f32", 1)} |->
            IF e = NoErr THEN TOk(VEC3) ELSE TFail(e)])
    ELSE IF expr.tag = "Vec2"
    THEN Bind([e \in {CheckComps(expr.args, "vec2 components must be f32", 1)} |->
            IF e = NoErr THEN TOk(VEC2) ELSE TFail(e)])
    ELSE IF expr.tag = "Call"
    THEN Bind([args \in {expr.args} |->
         Bind([n \in {Len(args)} |->
             LET all(t) == [k \in 1..n |-> t]
         IN IF expr.name = S_union
            THEN IF n < 2 THEN TFail(TypeErr("union expects at least 2 args"))
                 ELSE Bind([e \in {CheckArgs(args, all(FIELD), 0)} |->
                         IF e = NoErr THEN TOk(FIELD) ELSE TFail(e)])
            ELSE IF expr.name = S_circle
            THEN IF n # 1 THEN TFail(TypeErr("circle expects 1 arg"))
                 ELSE Bind([got \in {type_of(args[1])} |->
                         IF ~got.ok THEN got
                         ELSE IF got.ty # F32 THEN TFail(ArgErrNoGot(0, F32))
                         ELSE TOk(CIRCLE2D)])
            ELSE IF expr.name = S_polygon
            THEN IF n < 3 THEN TFail(TypeErr("polygon expects at least 3 args"))
                 ELSE Bind([e \in {CheckArgs(args, all(VEC2), 0)} |->
                         IF e = NoErr THEN TOk(POLY2D) ELSE TFail(e)])
            ELSE IF expr.name = S_line
            THEN IF n # 2 THEN TFail(TypeErr("line expects 2 args"))
                 ELSE Bind([e \in {CheckArgs(args, all(VEC3), 0)} |->
                         IF e = NoErr THEN TOk(PATH) ELSE TFail(e)])
            ELSE IF expr.name = S_polyline
            THEN IF n < 2 THEN TFail(TypeErr("polyline expects at least 2 args"))
                 ELSE Bind([e \in {CheckArgs(args, all(VEC3), 0)} |->
                         IF e = NoErr THEN TOk(PATH) ELSE TFail(e)])
            ELSE IF expr.name = S_extrude
            THEN IF n # 2 THEN TFail(TypeErr("extrude expects 2 args"))
                 ELSE Bind([shape \in {type_of(args[1])} |->
                         IF ~shape.ok THEN shape
                         ELSE IF shape.ty \notin {POLY2D, CIRCLE2D}
                         THEN TFail(ArgErr(0, "poly2d or circle2d", shape.ty))
                         ELSE Bind([h \in {type_of(args[2])} |->
                                 IF ~h.ok THEN h
                                 ELSE IF h.ty # F32 THEN TFail(ArgErrNoGot(1, F32))
                                 ELSE TOk(FIELD)])])
            ELSE IF expr.name = S_sweep
            THEN IF n # 2 THEN TFail(TypeErr("sweep expects 2 args"))
                 ELSE Bind([profile \in {type_of(args[1])} |->
                         IF ~profile.ok THEN profile
                         ELSE IF profile.ty \notin {POLY2D, CIRCLE2D}
                         THEN TFail(ArgErr(0, "poly2d or circle2d", profile.ty))
                         ELSE Bind([path \in {type_of(args[2])} |->
                                 IF ~path.ok THEN path
                                 ELSE IF path.ty # PATH THEN TFail(ArgErrNoGot(1, PATH))
                                 ELSE TOk(FIELD)])])
            ELSE IF expr.name \notin DOMAIN SIGS
            THEN TFail(TypeErr("Unknown function"))
            ELSE Bind([sig \in {SIGS[expr.name]} |->
                    IF n # Len(sig.args) THEN TFail(TypeErr("expects N args"))
                    ELSE Bind([e \in {CheckArgs(args, sig.args, 0)} |->
                            IF e = NoErr THEN TOk(sig.ret) ELSE TFail(e)])])])])
    ELSE TFail(TypeErr("Unknown expression"))

(***************************************************************************)
(* Arithmetic.  The compiler computes with floats; the model computes with *)
(* fixed-point integers counting units of 1/Scale, rounding after every    *)
(* multiplication, division and square root.  Literals stay exact decimals *)
(* until arithmetic is done on them.                                       *)
(***************************************************************************)
Scale == Pow10(FracDigits)

Sign(x) == IF x > 0 THEN 1 ELSE IF x < 0 THEN -1 ELSE 0
\* a / b rounded to the nearest integer
RDiv(a, b) == Sign(a) * Sign(b) * ((2 * Abs(a) + Abs(b)) \div (2 * Abs(b)))
\* decimal -> fixed point (digits beyond the precision are dropped)
FxOf(d) == Sign(d.m) * ((Abs(d.m) * Scale) \div Pow10(d.e))
\* fixed point -> decimal
DecOf(x) == Dec(x, FracDigits)
Fx(n) == n * Scale
FxMul(a, b) == RDiv(a * b, Scale)
FxDiv(a, b) == RDiv(a * Scale, b)

\* the integer square root, one base-36 digit at a time: the largest r in
\* lo..hi with r * r <= n
IsqrtDigit(n, lo, hi, step) ==
    CHOOSE k \in 0..35 :
        /\ lo + k * step <= hi
        /\ (lo + k * step) * (lo + k * step) <= n
        /\ \/ k = 35
           \/ lo + (k + 1) * step > hi
           \/ (lo + (k + 1) * step) * (lo + (k + 1) * step) > n

RECURSIVE IsqrtFrom(_, _, _, _), IsqrtNext(_, _, _, _, _)
IsqrtFrom(n, lo, hi, step) == IsqrtNext(n, lo, hi, step, IsqrtDigit(n, lo, hi, step))

IsqrtNext(n, lo, hi, step, k) ==
    IF step = 1 THEN lo + k
    ELSE IsqrtFrom(n, lo + k * step, Min2(hi, lo + (k + 1) * step - 1), step \div 36)

Isqrt(n) == IsqrtFrom(n, 0, Min2(n, 46340), 1296)
\* math.sqrt / ** 0.5 on fixed point
FxSqrt(a) == Isqrt(a * Scale)

(***************************************************************************)
(* Polygon geometry (dsl_geom.py) over points <<x, y>> in fixed point.     *)
(***************************************************************************)
orient(p, q, r) == (q[1] - p[1]) * (r[2] - p[2]) - (q[2] - p[2]) * (r[1] - p[1])

on_segment(p, q, r) ==
    /\ Min2(p[1], r[1]) <= q[1] /\ q[1] <= Max2(p[1], r[1])
    /\ Min2(p[2], r[2]) <= q[2] /\ q[2] <= Max2(p[2], r[2])

SegIntersectOf(a, b, c, d, o1, o2, o3, o4) ==
    IF o1 = 0 /\ on_segment(a, c, b) THEN TRUE
    ELSE IF o2 = 0 /\ on_segment(a, d, b) THEN TRUE
    ELSE IF o3 = 0 /\ on_segment(c, a, d) THEN TRUE
    ELSE IF o4 = 0 /\ on_segment(c, b, d) THEN TRUE
    ELSE ((o1 > 0) # (o2 > 0)) /\ ((o3 > 0) # (o4 > 0))

seg_intersect(a, b, c, d) ==
    SegIntersectOf(a, b, c, d, orient(a, b, c), orient(a, b, d), orient(c, d, a),
                   orient(c, d, b))

\* poly[(k) % n] with 0-based k
PolyAt(poly, k) == poly[(k % Len(poly)) + 1]

\* TRUE when check_polygon_simple returns, FALSE when it raises
check_polygon_simple(poly) ==
    \A i \in 0..(Len(poly) - 1) : \A j \in (i + 1)..(Len(poly) - 1) :
       \/ Abs(i - j) <= 1
       \/ (i = 0 /\ j = Len(poly) - 1)
       \/ ~seg_intersect(PolyAt(poly, i), PolyAt(poly, i + 1),
                         PolyAt(poly, j), PolyAt(poly, j + 1))

\* the cross product of the edges a -> b and b -> c
Cross3(a, b, c) == (b[1] - a[1]) * (c[2] - b[2]) - (b[2] - a[2]) * (c[1] - b[1])

PolyCross(poly, i) == Cross3(PolyAt(poly, i), PolyAt(poly, i + 1), PolyAt(poly, i + 2))

RECURSIVE ConvexFrom(_, _, _), ConvexNext(_, _, _, _)
ConvexFrom(poly, i, sign) ==
    IF i >= Len(poly) THEN TRUE ELSE ConvexNext(poly, i, sign, PolyCross(poly, i))

\* one pass of the loop of is_convex
ConvexNext(poly, i, sign, cross) ==
    CASE cross = 0 -> ConvexFrom(poly, i + 1, sign)
      [] cross # 0 /\ sign = 0 -> ConvexFrom(poly, i + 1, IF cross > 0 THEN 1 ELSE -1)
      [] cross # 0 /\ sign # 0 /\ sign # (IF cross > 0 THEN 1 ELSE -1) -> FALSE
      [] OTHER -> ConvexFrom(poly, i + 1, sign)

is_convex(poly) == ConvexFrom(poly, 0, 0)

\* a.x * b.y - b.x * a.y
AreaTerm(a, b) == a[1] * b[2] - b[1] * a[2]

RECURSIVE AreaFrom(_, _)
AreaFrom(poly, i) ==
    IF i >= Len(poly) THEN 0
    ELSE AreaTerm(PolyAt(poly, i), PolyAt(poly, i + 1)) + AreaFrom(poly, i + 1)

Reversed(sq) == [k \in 1..Len(sq) |-> sq[Len(sq) + 1 - k]]

\* ensure_ccw reversing on a positive area
ensure_cw(poly) == IF AreaFrom(poly, 0) > 0 THEN Reversed(poly) ELSE poly

ensure_ccw(poly) == IF AreaFrom(poly, 0) < 0 THEN Reversed(poly) ELSE poly

(***************************************************************************)
(* IR core (dsl_ir.py).                                                    *)
(***************************************************************************)
IR(op, args, type, value) == [op |-> op, args |-> args, type |-> type, value |-> value]

ir_const(v) == [op |-> "const", args |-> << >>, type |-> "f32", value |-> <<v>>]
ir_vec3(x, y, z) == [op |-> "vec3", args |-> <<x, y, z>>, type |-> "vec3", value |-> None]
ir_var(name) == [op |-> "var", args |-> << >>, type |-> "vec3", value |-> None]
ir_unary(op, a, out_type) == [op |-> op, args |-> <<a>>, type |-> out_type, value |-> None]
ir_binary(op, a, b, out_type) == [op |-> op, args |-> <<a, b>>, type |-> out_type, value |-> None]
\* ir_vec_op typing its node as a scalar
ir_vec_op_f32(op, a, b) == [op |-> op, args |-> <<a, b>>, type |-> "f32", value |-> None]
ir_vec_op(op, a, b) == [op |-> op, args |-> <<a, b>>, type |-> "vec3", value |-> None]
ir_mul(a, b) == [op |-> "mul", args |-> <<a, b>>, type |-> "f32", value |-> None]
\* ir_const of a computed float
ir_fx(x) == ir_const(DecOf(x))

\* the components of the free point p
VarX == ir_unary("vec_x", ir_var("p"), "f32")
VarY == ir_unary("vec_y", ir_var("p"), "f32")
VarZ == ir_unary("vec_z", ir_var("p"), "f32")

\* replace_var replacing a var at the root only
replace_var_root(node, name, repl) == IF node.op = "var" THEN repl ELSE node

RECURSIVE replace_var(_, _, _)
replace_var(node, name, repl) ==
    IF node.op = "var" THEN repl
    ELSE IR(node.op, [k \in 1..Len(node.args) |-> replace_var(node.args[k], name, repl)],
            node.type, node.value)

ValueError(msg) == Err("ValueError", msg, 0, 0)
IndexError == Err("IndexError", "list index out of range", 0, 0)

\* float constants of dsl_ir.py, rounded to the model's precision
Const(m, e) == RDiv(m * Scale, Pow10(e))
TwoPi == Const(62832, 4)
HalfPi == Const(15708, 4)
Pi == Const(31416, 4)

\* math.sin / math.cos on fixed point: Taylor polynomial after reduction of
\* the angle to [-pi/2, pi/2]
SinTerms(x, x2, x3) ==
    x - RDiv(x3, 6) + RDiv(FxMul(x3, x2), 120) - RDiv(FxMul(FxMul(x3, x2), x2), 5040)
SinSquare(x, x2) == SinTerms(x, x2, FxMul(x2, x))
SinPoly(x) == SinSquare(x, FxMul(x, x))
\* the angle reduced from (-pi, pi] to [-pi/2, pi/2]
SinFold(x) ==
    SinPoly(IF x > HalfPi THEN Pi - x ELSE IF x < -HalfPi THEN -Pi - x ELSE x)
\* the angle reduced from [0, 2 pi) to (-pi, pi]
SinWrap(r) == SinFold(IF r > Pi THEN r - TwoPi ELSE r)
FxSin(a) == SinWrap(a % TwoPi)
FxCos(a) == FxSin(a + HalfPi)

_extract_vec2(expr) ==
    IF expr.tag = "Vec2"
    THEN IF expr.args[1].tag # "Number" \/ expr.args[2].tag # "Number"
         THEN Fail(ValueError("vec2 components must be numeric constants"))
         ELSE Ok(<<FxOf(expr.args[1].value), FxOf(expr.args[2].value)>>)
    ELSE Fail(ValueError("polygon vertices must be vec2 constants"))

_extract_vec3(expr) ==
    IF expr.tag = "Vec3"
    THEN IF \E k \in 1..3 : expr.args[k].tag # "Number"
         THEN Fail(ValueError("vec3 components must be numeric constants"))
         ELSE Ok(<<FxOf(expr.args[1].value), FxOf(expr.args[2].value), FxOf(expr.args[3].value)>>)
    ELSE Fail(ValueError("path points must be vec3 constants"))

_extract_number(expr, label) ==
    IF expr.tag # "Number" THEN Fail(ValueError("must be a numeric constant"))
    ELSE Ok(FxOf(expr.value))

\* [_extract_vec2(a) for a in args]: the list, or the first error raised
RECURSIVE ExtractVec2s(_, _, _), ExtractVec2sNext(_, _, _, _)
ExtractVec2s(args, k, acc) ==
    IF k > Len(args) THEN Ok(acc)
    ELSE ExtractVec2sNext(args, k, acc, _extract_vec2(args[k]))

ExtractVec2sNext(args, k, acc, r) ==
    IF ~r.ok THEN r ELSE ExtractVec2s(args, k + 1, Append(acc, r.val))

\* [_extract_vec3(a) for a in args]: the list, or the first error raised
RECURSIVE ExtractVec3s(_, _, _), ExtractVec3sNext(_, _, _, _)
ExtractVec3s(args, k, acc) ==
    IF k > Len(args) THEN Ok(acc)
    ELSE ExtractVec3sNext(args, k, acc, _extract_vec3(args[k]))

ExtractVec3sNext(args, k, acc, r) ==
    IF ~r.ok THEN r ELSE ExtractVec3s(args, k + 1, Append(acc, r.val))

\* the checks with the convexity test made first
PolygonOfConvexFirst(r) ==
    IF ~r.ok THEN r
    ELSE IF ~is_convex(r.val) THEN Fail(ValueError("polygon must be convex"))
    ELSE IF ~check_polygon_simple(r.val)
    THEN Fail(ValueError("polygon is self-intersecting"))
    ELSE Ok(ensure_ccw(r.val))

\* the checks of dsl_geom.py on the extracted vertices
PolygonOf(r) ==
    IF ~r.ok THEN r
    ELSE IF ~check_polygon_simple(r.val)
    THEN Fail(ValueError("polygon is self-intersecting"))
    ELSE IF ~is_convex(r.val) THEN Fail(ValueError("polygon must be convex"))
    ELSE Ok(ensure_ccw(r.val))

_extract_polygon(expr) ==
    IF expr.tag # "Call" \/ expr.name # S_polygon
    THEN Fail(ValueError("extrude expects polygon(...) as first arg"))
    ELSE IF Len(expr.args) < 3 THEN Fail(ValueError("polygon expects at least 3 args"))
    ELSE PolygonOf(ExtractVec2s(expr.args, 1, << >>))

HelixParamsOf(radius, pitch, turns) ==
    IF ~radius.ok THEN radius
    ELSE IF ~pitch.ok THEN pitch
    ELSE IF ~turns.ok THEN turns
    ELSE Ok([radius |-> radius.val, pitch |-> pitch.val, turns |-> turns.val])

_extract_helix_params(expr) ==
    IF Len(expr.args) # 3 THEN Fail(ValueError("helix expects 3 args"))
    ELSE HelixParamsOf(_extract_number(expr.args[1], "helix arg 0"),
                       _extract_number(expr.args[2], "helix arg 1"),
                       _extract_number(expr.args[3], "helix arg 2"))

\* math.ceil of a fixed-point number, as an integer
FxCeil(x) == -((-x) \div Scale)

\* steps = max(1, ceil(24 * max(turns, 0)))
HelixSteps(turns) == Max2(1, FxCeil(FxMul(Fx(24), Max2(turns, 0))))

\* the point of the helix at the angle
HelixPoint(radius, pitch, angle) ==
    <<FxMul(radius, FxCos(angle)), FxDiv(FxMul(pitch, angle), TwoPi), FxMul(radius, FxSin(angle))>>

HelixPoints(radius, pitch, steps, angle_step) ==
    [k \in 1..(steps + 1) |-> HelixPoint(radius, pitch, angle_step * (k - 1))]

HelixPolylineOf(hp) ==
    IF ~hp.ok THEN hp
    ELSE Ok(HelixPoints(hp.val.radius, hp.val.pitch, HelixSteps(hp.val.turns),
                        RDiv(FxMul(TwoPi, hp.val.turns), HelixSteps(hp.val.turns))))

_extract_helix_polyline(expr) == HelixPolylineOf(_extract_helix_params(expr))

_extract_path(expr) ==
    IF expr.tag # "Call"
    THEN Fail(ValueError("sweep expects line(...), polyline(...), or helix(...) as second arg"))
    ELSE IF expr.name = S_line
    THEN IF Len(expr.args) # 2 THEN Fail(ValueError("line expects 2 args"))
         ELSE ExtractVec3s(expr.args, 1, << >>)
    ELSE IF expr.name = S_polyline
    THEN IF Len(expr.args) < 2 THEN Fail(ValueError("polyline expects at least 2 args"))
         ELSE ExtractVec3s(expr.args, 1, << >>)
    ELSE IF expr.name = S_helix THEN _extract_helix_polyline(expr)
    ELSE Fail(ValueError("sweep expects line(...), polyline(...), or helix(...) as second arg"))

\* c = sqrt(3) / 2 and half = radius / 2
HexagonOf(radius, half, rc) ==
    << <<radius, 0>>, <<half, rc>>, <<-half, rc>>, <<-radius, 0>>, <<-half, -rc>>, <<half, -rc>> >>

_hexagon_vertices(radius) == HexagonOf(radius, RDiv(radius, 2), FxMul(radius, Const(86603, 5)))

\* one pass of the loop of _ir_polygon_sdf, for the edge from v1 with
\* unnormalised normal (nx0, ny0) of length nlen: None when the edge is
\* skipped (`continue`), else <<dot>>
PolygonEdgeDot(v1, nx0, ny0, nlen, px, py) ==
    IF nlen = 0 THEN None
    ELSE LET dx == ir_binary("sub", px, ir_fx(v1[1]), "f32")
             dy == ir_binary("sub", py, ir_fx(v1[2]), "f32")
         IN Some(ir_binary("add", ir_mul(ir_fx(FxDiv(nx0, nlen)), dx),
                                  ir_mul(ir_fx(FxDiv(ny0, nlen)), dy), "f32"))

PolygonEdgeNormal(v1, nx0, ny0, px, py) ==
    PolygonEdgeDot(v1, nx0, ny0, FxSqrt(FxMul(nx0, nx0) + FxMul(ny0, ny0)), px, py)

\* ex = v2.x - v1.x, ey = v2.y - v1.y, nx = ey, ny = -ex
PolygonEdge(v1, v2, px, py) ==
    PolygonEdgeNormal(v1, v2[2] - v1[2], -(v2[1] - v1[1]), px, py)

\* the loop of _ir_polygon_sdf from edge i (0-based); max_d is None or <<ir>>
RECURSIVE PolygonSdfFrom(_, _, _, _, _), PolygonSdfNext(_, _, _, _, _, _)
PolygonSdfFrom(poly, px, py, i, max_d) ==
    IF i >= Len(poly) THEN max_d
    ELSE PolygonSdfNext(poly, px, py, i, max_d,
                        PolygonEdge(PolyAt(poly, i), PolyAt(poly, i + 1), px, py))

\* max_d = dot if max_d is None else max(max_d, dot)
PolygonSdfNext(poly, px, py, i, max_d, dot) ==
    CASE dot = None -> PolygonSdfFrom(poly, px, py, i + 1, max_d)
      [] dot # None /\ max_d = None -> PolygonSdfFrom(poly, px, py, i + 1, dot)
      [] OTHER ->
            PolygonSdfFrom(poly, px, py, i + 1, Some(ir_binary("max", max_d[1], dot[1], "f32")))

PolygonSdfOf(max_d) ==
    IF max_d = None THEN Fail(ValueError("polygon has invalid edges")) ELSE Ok(max_d[1])

_ir_polygon_sdf(poly, px, py) == PolygonSdfOf(PolygonSdfFrom(poly, px, py, 0, None))

\* max(max_d, |axis| - h), or the error of the polygon field
PrismOf(max_d, h, axis) ==
    IF ~max_d.ok THEN max_d
    ELSE Ok(ir_binary("max", max_d.val,
                      ir_binary("sub", ir_unary("abs", axis, "f32"), h, "f32"), "f32"))

_ir_prism_sdf(poly, h, px, py, axis) == PrismOf(_ir_polygon_sdf(poly, px, py), h, axis)

_ir_dot3_const(vec, cx, cy, cz) ==
    LET vx == ir_unary("vec_x", vec, "f32")
        vy == ir_unary("vec_y", vec, "f32")
        vz == ir_unary("vec_z", vec, "f32")
        dx == ir_mul(ir_fx(cx), vx)
        dy == ir_mul(ir_fx(cy), vy)
        dz == ir_mul(ir_fx(cz), vz)
    IN ir_binary("add", ir_binary("add", dx, dy, "f32"), dz, "f32")

_ir_dot3(a, b, c, x, y, z) ==
    LET dx == ir_mul(a, x)
        dy == ir_mul(b, y)
        dz == ir_mul(c, z)
    IN ir_binary("add", ir_binary("add", dx, dy, "f32"), dz, "f32")

_ir_clamp01(v) ==
    ir_binary("min", ir_binary("max", v, ir_fx(0), "f32"), ir_fx(Fx(1)), "f32")

_ir_blend_sdf(sdf1, sdf2, t) ==
    LET one_minus_t == ir_binary("sub", ir_fx(Fx(1)), t, "f32")
        term1 == ir_mul(one_minus_t, sdf1)
        term2 == ir_mul(t, sdf2)
    IN ir_binary("add", term1, term2, "f32")

_ir_circle_sdf(radius, px, py) ==
    LET radial == ir_unary("length", ir_vec3(px, py, ir_fx(0)), "f32")
    IN ir_binary("sub", radial, ir_fx(radius), "f32")

\* min(a, b) - (k / 6) * h^3
SminOf(a, b, k, h) ==
    ir_binary("sub", ir_binary("min", a, b, "f32"),
              ir_mul(ir_fx(FxMul(k, FxDiv(Fx(1), Fx(6)))), ir_mul(ir_mul(h, h), h)), "f32")

\* h = max(k - |a - b|, 0) * (1 / k)
_ir_smin(a, b, k) ==
    IF k <= 0 THEN ir_binary("min", a, b, "f32")
    ELSE SminOf(a, b, k,
             ir_mul(ir_binary("max",
                        ir_binary("sub", ir_fx(k),
                                  ir_unary("abs", ir_binary("sub", a, b, "f32"), "f32"), "f32"),
                        ir_fx(0), "f32"),
                    ir_fx(FxDiv(Fx(1), k))))

(***************************************************************************)
(* The local frame of a path segment, shared by sweep and blend2D:         *)
(* tangent t, normal n = normalize(up x t), binormal b = t x n.            *)
(***************************************************************************)
\* binormal b = t x n for the unit normal n
SegFrameAxes(tx, ty, tz, nx, ny, nz) ==
    [ok |-> TRUE, nx |-> nx, ny |-> ny, nz |-> nz,
     bx |-> FxMul(ty, nz) - FxMul(tz, ny),
     by |-> FxMul(tz, nx) - FxMul(tx, nz),
     bz |-> FxMul(tx, ny) - FxMul(ty, nx)]

\* a segment whose normal has length zero is skipped (`continue`)
SegFrameUnit(tx, ty, tz, nx0, ny0, nz0, nlen) ==
    IF nlen = 0 THEN [ok |-> FALSE]
    ELSE SegFrameAxes(tx, ty, tz, FxDiv(nx0, nlen), FxDiv(ny0, nlen), FxDiv(nz0, nlen))

SegFrameNormal(tx, ty, tz, nx0, ny0, nz0) ==
    SegFrameUnit(tx, ty, tz, nx0, ny0, nz0,
                 FxSqrt(FxMul(nx0, nx0) + FxMul(ny0, ny0) + FxMul(nz0, nz0)))

\* n0 = up x t
SegFrameUp(tx, ty, tz, upx, upy, upz) ==
    SegFrameNormal(tx, ty, tz, FxMul(upy, tz) - FxMul(upz, ty),
                   FxMul(upz, tx) - FxMul(upx, tz), FxMul(upx, ty) - FxMul(upy, tx))

\* up = (0, 1, 0), or (1, 0, 0) when |t . up| > 0.999
SegFrame(tx, ty, tz) ==
    IF Abs(FxMul(tx, 0) + FxMul(ty, Fx(1)) + FxMul(tz, 0)) * 1000 > 999 * Scale
    THEN SegFrameUp(tx, ty, tz, Fx(1), 0, 0)
    ELSE SegFrameUp(tx, ty, tz, 0, Fx(1), 0)

LOk(n) == [ok |-> TRUE, ir |-> Some(n), err |-> NoErr]
LFail(e) == [ok |-> FALSE, ir |-> None, err |-> e]
\* `return cur` of the segment loops: cur is None when every segment was skipped
LCur(cur) == [ok |-> TRUE, ir |-> cur, err |-> NoErr]

\* the local coordinates of q = p - closest point
SegLocalOf(q, t_clamped, sg, fr) ==
    [t |-> t_clamped,
     px |-> _ir_dot3_const(q, fr.nx, fr.ny, fr.nz),
     py |-> _ir_dot3_const(q, fr.bx, fr.by, fr.bz),
     qt |-> _ir_dot3_const(q, sg.tx, sg.ty, sg.tz)]

\* c = A + AB * t_clamped, q = p - c
SegLocalAt(p, a_vec, t_clamped, sg, fr) ==
    SegLocalOf(ir_vec_op("vec_sub", p,
                   ir_vec_op("vec_add", a_vec,
                       ir_vec3(ir_mul(ir_fx(sg.abx), t_clamped),
                               ir_mul(ir_fx(sg.aby), t_clamped),
                               ir_mul(ir_fx(sg.abz), t_clamped)))),
               t_clamped, sg, fr)

\* t_clamped = clamp01(((p - A) . AB) * inv_len2)
SegLocalFrom(p, a_vec, sg, fr, inv_len2) ==
    SegLocalAt(p, a_vec,
               _ir_clamp01(ir_mul(_ir_dot3_const(ir_vec_op("vec_sub", p, a_vec),
                                                 sg.abx, sg.aby, sg.abz),
                                  ir_fx(inv_len2))),
               sg, fr)

\* the projection of p on segment [A, B] and the local coordinates of
\* q = p - closest point: common to the segment loops of sweep and blend2D
SegLocal(p, sg, fr, inv_len2) ==
    SegLocalFrom(p, ir_vec3(ir_fx(sg.ax), ir_fx(sg.ay), ir_fx(sg.az)), sg, fr, inv_len2)

(***************************************************************************)
(* lower, branch blend2D.                                                  *)
(***************************************************************************)
ProfilePolygon(r) ==
    IF ~r.ok THEN r ELSE Ok([kind |-> "polygon", poly |-> r.val, radius |-> 0])

ProfileCircle(r) ==
    IF ~r.ok THEN r ELSE Ok([kind |-> "circle", poly |-> << >>, radius |-> r.val])

get_profile_data(profile) ==
    IF profile.tag = "Call" /\ profile.name = S_polygon
    THEN ProfilePolygon(_extract_polygon(profile))
    ELSE IF profile.tag = "Call" /\ profile.name = S_circle
    THEN IF Len(profile.args) # 1 THEN Fail(ValueError("circle expects 1 arg"))
         ELSE ProfileCircle(_extract_number(profile.args[1], "circle radius"))
    ELSE Fail(ValueError("blend2D expects polygon(...) or circle(...) profiles"))

\* abx*abx + aby*aby + abz*abz for the segment from a to b
SegLen2(a, b) ==
    FxMul(b[1] - a[1], b[1] - a[1]) + FxMul(b[2] - a[2], b[2] - a[2])
        + FxMul(b[3] - a[3], b[3] - a[3])

\* the entry appended to segments for the segment from a to b
BlendSegment(a, b, seg_len, cum_len) ==
    [ax |-> a[1], ay |-> a[2], az |-> a[3],
     abx |-> b[1] - a[1], aby |-> b[2] - a[2], abz |-> b[3] - a[3],
     seg_len |-> seg_len, cum_len |-> cum_len,
     tx |-> FxDiv(b[1] - a[1], seg_len), ty |-> FxDiv(b[2] - a[2], seg_len),
     tz |-> FxDiv(b[3] - a[3], seg_len)]

\* the arc-length table: the non-degenerate segments with their length and
\* the length of the path before them
RECURSIVE BlendSegments(_, _, _, _), BlendSegmentsNext(_, _, _, _, _)
BlendSegments(path, i, total_length, acc) ==
    IF i >= Len(path) THEN [segments |-> acc, total_length |-> total_length]
    ELSE BlendSegmentsNext(path, i, total_length, acc, FxSqrt(SegLen2(path[i], path[i + 1])))
\* the table with every segment starting at arc length zero
BlendSegmentsFromZero(path, i, total_length, acc, seg_len) ==
    IF seg_len = 0 THEN BlendSegments(path, i + 1, total_length, acc)
    ELSE BlendSegments(path, i + 1, total_length + seg_len,
             Append(acc, BlendSegment(path[i], path[i + 1], seg_len, 0)))
BlendSegmentsNext(path, i, total_length, acc, seg_len) ==
    IF seg_len = 0 THEN BlendSegments(path, i + 1, total_length, acc)
    ELSE BlendSegments(path, i + 1, total_length + seg_len,
             Append(acc, BlendSegment(path[i], path[i + 1], seg_len, total_length)))

ProfileSdf(prof, px, py) ==
    IF prof.kind = "circle" THEN Ok(_ir_circle_sdf(prof.radius, px, py))
    ELSE _ir_polygon_sdf(prof.poly, px, py)

\* cur = seg if cur is None else min(cur, seg)
MinCur(cur, seg) ==
    IF cur = None THEN Some(seg) ELSE Some(ir_binary("min", cur[1], seg, "f32"))

\* seg = max(blend of the two profile fields at t_global, |q.t|)
BlendSegOf(sdf1, sdf2, t_global, qt) ==
    IF ~sdf1.ok THEN Fail(sdf1.err)
    ELSE IF ~sdf2.ok THEN Fail(sdf2.err)
    ELSE Ok(ir_binary("max", _ir_blend_sdf(sdf1.val, sdf2.val, t_global),
                      ir_unary("abs", qt, "f32"), "f32"))

\* t_global = (cum_len + t_clamped * seg_len) * inv_total_length
BlendSegIR(sg, loc, prof1, prof2, inv_total_length) ==
    BlendSegOf(ProfileSdf(prof1, loc.px, loc.py), ProfileSdf(prof2, loc.px, loc.py),
               ir_mul(ir_binary("add", ir_fx(sg.cum_len),
                                ir_mul(loc.t, ir_fx(sg.seg_len)), "f32"),
                      ir_fx(inv_total_length)),
               loc.qt)

\* the segment loop of blend2D from segment k
RECURSIVE BlendLoop(_, _, _, _, _, _), BlendLoopFrame(_, _, _, _, _, _, _),
          BlendLoopSeg(_, _, _, _, _, _, _)
BlendLoop(segments, k, prof1, prof2, inv_total_length, cur) ==
    IF k > Len(segments) THEN LCur(cur)
    ELSE BlendLoopFrame(segments, k, prof1, prof2, inv_total_length, cur,
                        SegFrame(segments[k].tx, segments[k].ty, segments[k].tz))
BlendLoopFrame(segments, k, prof1, prof2, inv_total_length, cur, fr) ==
    IF ~fr.ok THEN BlendLoop(segments, k + 1, prof1, prof2, inv_total_length, cur)
    ELSE IF FxMul(segments[k].seg_len, segments[k].seg_len) = 0
    THEN LFail(Err("ZeroDivisionError", "float division by zero", 0, 0))
    ELSE BlendLoopSeg(segments, k, prof1, prof2, inv_total_length, cur,
             BlendSegIR(segments[k],
                        SegLocal(ir_var("p"), segments[k], fr,
                                 FxDiv(Fx(1), FxMul(segments[k].seg_len, segments[k].seg_len))),
                        prof1, prof2, inv_total_length))
BlendLoopSeg(segments, k, prof1, prof2, inv_total_length, cur, seg) ==
    IF ~seg.ok THEN LFail(seg.err)
    ELSE BlendLoop(segments, k + 1, prof1, prof2, inv_total_length, MinCur(cur, seg.val))

BlendOver(tab, p1, p2) ==
    IF tab.segments = << >> THEN LFail(ValueError("blend2D path has no valid segments"))
    ELSE IF tab.total_length = 0 THEN LFail(ValueError("blend2D path has zero length"))
    ELSE BlendLoop(tab.segments, 1, p1, p2, FxDiv(Fx(1), tab.total_length), None)

BlendOf(p1, p2, path) ==
    IF ~p1.ok THEN LFail(p1.err)
    ELSE IF ~p2.ok THEN LFail(p2.err)
    ELSE IF ~path.ok THEN LFail(path.err)
    ELSE IF Len(path.val) < 2 THEN LFail(ValueError("blend2D path must have at least 2 points"))
    ELSE BlendOver(BlendSegments(path.val, 1, 0, << >>), p1.val, p2.val)

LowerBlend2D(expr) ==
    IF Len(expr.args) # 3
    THEN LFail(ValueError("blend2D expects 3 args: profile1, profile2, path"))
    ELSE BlendOf(get_profile_data(expr.args[1]), get_profile_data(expr.args[2]),
                 _extract_path(expr.args[3]))

(***************************************************************************)
(* lower, branch sweep.                                                    *)
(***************************************************************************)
SweepPolygonProfile(r) ==
    IF ~r.ok THEN r ELSE Ok([kind |-> "polygon", poly |-> r.val, radius |-> 0])

SweepCircleProfile(r) ==
    IF ~r.ok THEN r ELSE Ok([kind |-> "circle", poly |-> << >>, radius |-> r.val])

SweepProfile(profile) ==
    IF profile.tag = "Call" /\ profile.name = S_polygon
    THEN SweepPolygonProfile(_extract_polygon(profile))
    ELSE IF profile.tag = "Call" /\ profile.name = S_circle
    THEN IF Len(profile.args) # 1 THEN Fail(ValueError("circle expects 1 arg"))
         ELSE SweepCircleProfile(_extract_number(profile.args[1], "circle arg 0"))
    ELSE Fail(ValueError("sweep expects polygon(...) or circle(...) as first arg"))

\* angle_mod = angle - 2 pi * floor(angle / 2 pi) for angle = atan2(p.z, p.x)
HelixAngleModOf(angle) ==
    ir_binary("sub", angle,
              ir_mul(ir_fx(TwoPi),
                     ir_unary("floor", ir_mul(angle, ir_fx(FxDiv(Fx(1), TwoPi))), "f32")), "f32")

HelixAngleMod == HelixAngleModOf(ir_binary("atan2", VarZ, VarX, "f32"))

\* t0 = angle_mod + 2 pi * floor((y_over_h - angle_mod) / 2 pi + 0.5)
HelixT0Of(angle_mod, y_over_h) ==
    ir_binary("add", angle_mod,
        ir_mul(ir_fx(TwoPi),
            ir_unary("floor",
                ir_binary("add",
                    ir_mul(ir_binary("sub", y_over_h, angle_mod, "f32"),
                           ir_fx(FxDiv(Fx(1), TwoPi))),
                    ir_const(Dec(5, 1)), "f32"),
                "f32")),
        "f32")

HelixT0(h) ==
    HelixT0Of(HelixAngleMod, IF h # 0 THEN ir_mul(VarY, ir_fx(FxDiv(Fx(1), h))) ELSE ir_fx(0))

\* t, clamped to [0, total_angle] when total_angle > 0
HelixT(h, total_angle) ==
    IF total_angle > 0
    THEN ir_binary("min", ir_binary("max", HelixT0(h), ir_fx(0), "f32"),
                   ir_fx(total_angle), "f32")
    ELSE HelixT0(h)

\* max(profile_d, |q.t|), or the error of the polygon field
SweepPolygonSeg(profile_d, qt) ==
    IF ~profile_d.ok THEN profile_d
    ELSE Ok(ir_binary("max", profile_d.val, ir_unary("abs", qt, "f32"), "f32"))

\* the polygon profile in the frame (n, b, t) of the helix at t
HelixPolygonIn(poly, qx, qy, qz, nx, nz, tx, ty, tz) ==
    Bind([px \in {_ir_dot3(qx, qy, qz, nx, ir_fx(0), nz)} |->
    Bind([py \in {_ir_dot3(qx, qy, qz,
                           ir_mul(ty, nz),
                           ir_binary("sub", ir_mul(tz, nx), ir_mul(tx, nz), "f32"),
                           ir_mul(ir_unary("neg", ty, "f32"), nx))} |->
       SweepPolygonSeg(_ir_polygon_sdf(poly, px, py), _ir_dot3(qx, qy, qz, tx, ty, tz))])])

HelixPolygonFrame(poly, q, radius, h, sin_t, cos_t, inv_tlen) ==
    HelixPolygonIn(poly, ir_unary("vec_x", q, "f32"), ir_unary("vec_y", q, "f32"),
                   ir_unary("vec_z", q, "f32"), cos_t, sin_t,
                   ir_mul(ir_fx(FxMul(-radius, inv_tlen)), sin_t),
                   ir_fx(FxMul(h, inv_tlen)),
                   ir_mul(ir_fx(FxMul(radius, inv_tlen)), cos_t))

HelixInvTlen(tlen) == IF tlen > 0 THEN FxDiv(Fx(1), tlen) ELSE 0

\* the distance to the profile placed at the closest point of the helix
HelixProfileD(prof, q, radius, h, sin_t, cos_t) ==
    IF prof.kind = "circle"
    THEN Ok(ir_binary("sub", ir_unary("length", q, "f32"), ir_fx(prof.radius), "f32"))
    ELSE HelixPolygonFrame(prof.poly, q, radius, h, sin_t, cos_t,
                           HelixInvTlen(FxSqrt(FxMul(radius, radius) + FxMul(h, h))))

\* the caps at y = 0 and y = h * total_angle
HelixCap(d, h, total_angle) ==
    IF ~d.ok THEN LFail(d.err)
    ELSE IF total_angle > 0
    THEN LOk(ir_binary("max", d.val,
                 ir_binary("max", ir_unary("neg", VarY, "f32"),
                           ir_binary("sub", VarY, ir_fx(FxMul(h, total_angle)), "f32"), "f32"),
                 "f32"))
    ELSE LOk(d.val)

\* q = p - helix_pos
HelixAt(prof, radius, h, total_angle, t, sin_t, cos_t) ==
    Bind([q \in {ir_vec_op("vec_sub", ir_var("p"),
                     ir_vec3(ir_mul(ir_fx(radius), cos_t), ir_mul(ir_fx(h), t),
                             ir_mul(ir_fx(radius), sin_t)))} |->
       HelixCap(HelixProfileD(prof, q, radius, h, sin_t, cos_t), h, total_angle)])

HelixField(prof, radius, h, total_angle, t) ==
    HelixAt(prof, radius, h, total_angle, t, ir_unary("sin", t, "f32"), ir_unary("cos", t, "f32"))

\* sweep along helix(radius, pitch, turns): the parameter t is recovered
\* analytically from p
SweepHelixOf(prof, radius, h, total_angle) ==
    Bind([t \in {HelixT(h, total_angle)} |-> HelixField(prof, radius, h, total_angle, t)])

SweepHelix(prof, hp) ==
    SweepHelixOf(prof, hp.radius, FxDiv(hp.pitch, TwoPi), FxMul(TwoPi, Max2(hp.turns, 0)))

\* the entry appended to segments for the segment from a to b
SweepSegment(a, b, len2, tlen) ==
    [ax |-> a[1], ay |-> a[2], az |-> a[3],
     abx |-> b[1] - a[1], aby |-> b[2] - a[2], abz |-> b[3] - a[3], len2 |-> len2,
     tx |-> FxDiv(b[1] - a[1], tlen), ty |-> FxDiv(b[2] - a[2], tlen),
     tz |-> FxDiv(b[3] - a[3], tlen)]

\* the non-degenerate segments of the path with len2 and unit tangent
RECURSIVE SweepSegments(_, _, _), SweepSegmentsNext(_, _, _, _)
SweepSegments(path, i, acc) ==
    IF i >= Len(path) THEN acc
    ELSE SweepSegmentsNext(path, i, acc, SegLen2(path[i], path[i + 1]))
SweepSegmentsNext(path, i, acc, len2) ==
    IF len2 = 0 THEN SweepSegments(path, i + 1, acc)
    ELSE SweepSegments(path, i + 1,
             Append(acc, SweepSegment(path[i], path[i + 1], len2, FxSqrt(len2))))

\* the join radius without the half
JoinSmoothWhole(profile_radius, dot) == FxMul(profile_radius, Max2(0, Fx(1) - dot))

\* join_smooth[i-1] for segments i-1 and i (1-based i >= 2)
JoinSmoothOf(profile_radius, dot) == FxMul(profile_radius, Max2(0, RDiv(Fx(1) - dot, 2)))

\* dot = max(-1, min(1, a.t . b.t))
JoinDot(a, b) ==
    Max2(-Fx(1), Min2(Fx(1), FxMul(a.tx, b.tx) + FxMul(a.ty, b.ty) + FxMul(a.tz, b.tz)))

JoinSmooth(segments, profile_radius) ==
    [j \in 1..(Len(segments) - 1) |->
        JoinSmoothOf(profile_radius, JoinDot(segments[j], segments[j + 1]))]

\* the field of segment idx (0-based): a capsule for the interior segments
\* of a circle profile, else max(profile, |q.t|)
SweepSegIR(idx, last_idx, prof, loc) ==
    IF prof.kind = "circle"
    THEN IF idx \notin {0, last_idx}
         THEN Ok(ir_binary("sub", ir_unary("length", ir_vec3(loc.px, loc.py, loc.qt), "f32"),
                           ir_fx(prof.radius), "f32"))
         ELSE Ok(ir_binary("max",
                    ir_binary("sub", ir_unary("length", ir_vec3(loc.px, loc.py, ir_fx(0)), "f32"),
                              ir_fx(prof.radius), "f32"),
                    ir_unary("abs", loc.qt, "f32"), "f32"))
    ELSE SweepPolygonSeg(_ir_polygon_sdf(prof.poly, loc.px, loc.py), loc.qt)

\* k = join_smooth[idx - 1] if idx - 1 < len(join_smooth) else 0.0
SweepSmin(cur, seg, k) ==
    IF k > 0 THEN Some(_ir_smin(cur[1], seg, k))
    ELSE Some(ir_binary("min", cur[1], seg, "f32"))

\* cur after segment idx
SweepJoin(cur, seg, idx, use_round_segments, join_smooth) ==
    IF cur = None THEN Some(seg)
    ELSE IF use_round_segments
    THEN SweepSmin(cur, seg, IF idx - 1 < Len(join_smooth) THEN join_smooth[idx] ELSE 0)
    ELSE Some(ir_binary("min", cur[1], seg, "f32"))

\* the segment loop; idx is the 0-based index of the code
RECURSIVE SweepLoop(_, _, _, _, _), SweepLoopFrame(_, _, _, _, _, _),
          SweepLoopSeg(_, _, _, _, _, _)
SweepLoop(segments, idx, prof, join_smooth, cur) ==
    IF idx >= Len(segments) THEN LCur(cur)
    ELSE SweepLoopFrame(segments, idx, prof, join_smooth, cur,
             SegFrame(segments[idx + 1].tx, segments[idx + 1].ty, segments[idx + 1].tz))
SweepLoopFrame(segments, idx, prof, join_smooth, cur, fr) ==
    IF ~fr.ok THEN SweepLoop(segments, idx + 1, prof, join_smooth, cur)
    ELSE SweepLoopSeg(segments, idx, prof, join_smooth, cur,
             SweepSegIR(idx, Len(segments) - 1, prof,
                        SegLocal(ir_var("p"), segments[idx + 1], fr,
                                 FxDiv(Fx(1), segments[idx + 1].len2))))
SweepLoopSeg(segments, idx, prof, join_smooth, cur, seg) ==
    IF ~seg.ok THEN LFail(seg.err)
    ELSE SweepLoop(segments, idx + 1, prof, join_smooth,
             SweepJoin(cur, seg.val, idx, prof.kind = "circle", join_smooth))

\* the loop entered without looking at the number of segments
SweepOverAny(segments, prof) ==
    SweepLoop(segments, 0, prof,
              IF prof.kind = "circle" THEN JoinSmooth(segments, prof.radius) ELSE << >>,
              None)

SweepOver(segments, prof) ==
    IF segments = << >>
    THEN LFail(ValueError("sweep path has no valid segments"))
    ELSE SweepLoop(segments, 0, prof,
                   IF prof.kind = "circle" THEN JoinSmooth(segments, prof.radius) ELSE << >>,
                   None)

SweepAlong(path, prof) ==
    IF ~path.ok THEN LFail(path.err)
    ELSE IF Len(path.val) < 2
    THEN LFail(ValueError("sweep path must have at least 2 points"))
    ELSE SweepOver(SweepSegments(path.val, 1, << >>), prof)

SweepAlongHelix(hp, prof) ==
    IF ~hp.ok THEN LFail(hp.err) ELSE SweepHelix(prof, hp.val)

SweepOf(prof, path_expr) ==
    IF ~prof.ok THEN LFail(prof.err)
    ELSE IF path_expr.tag = "Call" /\ path_expr.name = S_helix
    THEN SweepAlongHelix(_extract_helix_params(path_expr), prof.val)
    ELSE SweepAlong(_extract_path(path_expr), prof.val)

LowerSweep(expr) ==
    IF Len(expr.args) # 2 THEN LFail(ValueError("sweep expects 2 args"))
    ELSE SweepOf(SweepProfile(expr.args[1]), expr.args[2])

(***************************************************************************)
(* lower (dsl_ir.py).  Reading expr.args[k] beyond the list is Python's    *)
(* IndexError.                                                             *)
(***************************************************************************)
RECURSIVE lower(_), LowerArgs(_, _, _, _), LowerArgsNext(_, _, _, _, _), LowerDesugared(_)

\* hex_nut returns lower(desugared AST)
LowerDesugared(r) == IF ~r.ok THEN LFail(r.err) ELSE lower(r.val)
\* lower(expr.args[0]), lower(expr.args[1]), ... in order, count of them
LowerArgs(args, count, k, acc) ==
    IF k > count THEN Ok(acc)
    ELSE IF k > Len(args) THEN Fail(IndexError)
    ELSE LowerArgsNext(args, count, k, acc, lower(args[k]))

\* reading `.ir` of the lowered argument
LowerArgsNext(args, count, k, acc, r) ==
    IF ~r.ok THEN Fail(r.err)
    ELSE IF r.ir = None THEN Fail(Err("AttributeError", "NoneType", 0, 0))
    ELSE LowerArgs(args, count, k + 1, Append(acc, r.ir[1]))

\* union folding its first two arguments only
UnionFoldFirstTwo(irs, k, cur) == ir_binary("min", irs[1], irs[2], "f32")

RECURSIVE UnionFold(_, _, _)
UnionFold(irs, k, cur) ==
    IF k > Len(irs) THEN cur ELSE UnionFold(irs, k + 1, ir_binary("min", cur, irs[k], "f32"))

\* the cylinder field without the outside distance
CylinderFieldInside(dx, dy) ==
    ir_binary("min", ir_binary("max", dx, dy, "f32"), ir_fx(0), "f32")

\* inside + out, with inside = min(max(dx, dy), 0) and
\* out = length((max(dx, 0), max(dy, 0), 0))
CylinderField(dx, dy) ==
    ir_binary("add",
        ir_binary("min", ir_binary("max", dx, dy, "f32"), ir_fx(0), "f32"),
        ir_unary("length",
            ir_vec3(ir_binary("max", dx, ir_fx(0), "f32"),
                    ir_binary("max", dy, ir_fx(0), "f32"), ir_fx(0)), "f32"),
        "f32")

\* abs_y = max(y, -y) for y the y component of abs(p)
CylinderAbsY(y) == ir_binary("max", y, ir_unary("neg", y, "f32"), "f32")

LowerCylinder(r, h) ==
    CylinderField(
        ir_binary("sub", ir_unary("length", ir_vec3(VarX, ir_fx(0), VarZ), "f32"), r, "f32"),
        ir_binary("sub",
            CylinderAbsY(ir_unary("vec_y", ir_unary("vec_abs", ir_var("p"), "vec3"), "f32")),
            h, "f32"))

\* length(max(q, 0)) + min(max(max(q.x, q.y), q.z), 0)
BoxField(q) ==
    ir_binary("add",
        ir_unary("length",
            ir_vec_op("vec_max", q, ir_vec3(ir_fx(0), ir_fx(0), ir_fx(0))), "f32"),
        ir_binary("min",
            ir_binary("max",
                ir_binary("max", ir_unary("vec_x", q, "f32"), ir_unary("vec_y", q, "f32"), "f32"),
                ir_unary("vec_z", q, "f32"), "f32"),
            ir_fx(0), "f32"),
        "f32")

LowerBox(size) ==
    BoxField(ir_vec_op("vec_sub", ir_unary("vec_abs", ir_var("p"), "vec3"), size))

\* the prism of a polygon profile
ExtrudePrism(d) == IF ~d.ok THEN LFail(d.err) ELSE LOk(d.val)

ExtrudePolygon(poly, h) ==
    IF ~poly.ok THEN LFail(poly.err)
    ELSE ExtrudePrism(_ir_prism_sdf(poly.val, h, VarX, VarY, VarZ))

\* the capped cylinder along z of a circle profile
ExtrudeCircleField(dx, dz) ==
    ir_binary("add",
        ir_binary("min", ir_binary("max", dx, dz, "f32"), ir_fx(0), "f32"),
        ir_unary("length",
            ir_vec3(ir_binary("max", dx, ir_fx(0), "f32"),
                    ir_binary("max", dz, ir_fx(0), "f32"), ir_fx(0)), "f32"),
        "f32")

ExtrudeCircle(rn, h) ==
    IF ~rn.ok THEN LFail(rn.err)
    ELSE LOk(ExtrudeCircleField(
            ir_binary("sub", ir_unary("length", ir_vec3(VarX, VarY, ir_fx(0)), "f32"),
                      ir_fx(rn.val), "f32"),
            ir_binary("sub", ir_unary("abs", VarZ, "f32"), h, "f32")))

LowerExtrude(profile, h) ==
    IF profile.tag = "Call" /\ profile.name = S_polygon
    THEN ExtrudePolygon(_extract_polygon(profile), h)
    ELSE IF profile.tag = "Call" /\ profile.name = S_circle
    THEN IF Len(profile.args) # 1 THEN LFail(ValueError("circle expects 1 arg"))
         ELSE ExtrudeCircle(_extract_number(profile.args[1], "circle arg 0"), h)
    ELSE LFail(ValueError("extrude expects polygon(...) or circle(...) as first arg"))

\* a = -angle * deg_to_rad for one component of the angles
RotateAngle(angles, comp) ==
    ir_mul(ir_unary("neg", ir_unary(comp, angles, "f32"), "f32"), ir_const(Dec(17453293, 9)))

\* the rotation about Z of (x2, y2, z2)
RotateZ(x2, y2, z2, cz, sz) ==
    ir_vec3(ir_binary("sub", ir_mul(x2, cz), ir_mul(y2, sz), "f32"),
            ir_binary("add", ir_mul(x2, sz), ir_mul(y2, cz), "f32"),
            z2)

\* the rotation about Y of (x1, y1, z1), then about Z
RotateY(x1, y1, z1, cy, sy, az) ==
    RotateZ(ir_binary("add", ir_mul(x1, cy), ir_mul(z1, sy), "f32"),
            y1,
            ir_binary("add", ir_mul(ir_unary("neg", x1, "f32"), sy), ir_mul(z1, cy), "f32"),
            ir_unary("cos", az, "f32"), ir_unary("sin", az, "f32"))

\* the rotation about X of (x0, y0, z0), then about Y and Z
RotateX(x0, y0, z0, cx, sx, ay, az) ==
    RotateY(x0,
            ir_binary("sub", ir_mul(y0, cx), ir_mul(z0, sx), "f32"),
            ir_binary("add", ir_mul(y0, sx), ir_mul(z0, cx), "f32"),
            ir_unary("cos", ay, "f32"), ir_unary("sin", ay, "f32"), az)

Rotated(ax, ay, az) ==
    RotateX(VarX, VarY, VarZ, ir_unary("cos", ax, "f32"), ir_unary("sin", ax, "f32"), ay, az)

LowerRotate(g, angles) ==
    replace_var(g, "p",
        Rotated(RotateAngle(angles, "vec_x"), RotateAngle(angles, "vec_y"),
                RotateAngle(angles, "vec_z")))

\* the AST hex_nut desugars to
HexNutPrism(poly, half_h) ==
    Call(S_rotate,
         << Call(S_extrude,
                 << Call(S_polygon,
                         [k \in 1..Len(poly) |->
                             Vec2(Number(DecOf(poly[k][1])), Number(DecOf(poly[k][2])))]),
                    Number(DecOf(half_h)) >>),
            Vec3(Number(Dec(90, 0)), Number(Zero), Number(Zero)) >>)

HexNutAst(outer_r, inner_r, half_h) ==
    Call(S_difference,
         << HexNutPrism(_hexagon_vertices(outer_r), half_h),
            Call(S_cylinder, <<Number(DecOf(inner_r)), Number(DecOf(half_h + Const(1, 2)))>>) >>)

\* the three numbers of hex_nut, extracted in argument order
HexNutOf(outer_r, inner_r, half_h) ==
    IF ~outer_r.ok THEN outer_r
    ELSE IF ~inner_r.ok THEN inner_r
    ELSE IF ~half_h.ok THEN half_h
    ELSE Ok(HexNutAst(outer_r.val, inner_r.val, half_h.val))

\* the branches of lower on their lowered arguments
LowerVec3(a) ==
    IF ~a.ok THEN LFail(a.err) ELSE LOk(ir_vec3(a.val[1], a.val[2], a.val[3]))

LowerSphere(a) ==
    IF ~a.ok THEN LFail(a.err)
    ELSE LOk(ir_binary("sub", ir_unary("length", ir_var("p"), "f32"), a.val[1], "f32"))

LowerCylinderOf(a) ==
    IF ~a.ok THEN LFail(a.err) ELSE LOk(LowerCylinder(a.val[1], a.val[2]))

LowerBoxOf(a) == IF ~a.ok THEN LFail(a.err) ELSE LOk(LowerBox(a.val[1]))

LowerUnion(a) == IF ~a.ok THEN LFail(a.err) ELSE LOk(UnionFold(a.val, 2, a.val[1]))

\* difference without the negation of b
LowerDifferenceOfMax(a) ==
    IF ~a.ok THEN LFail(a.err) ELSE LOk(ir_binary("max", a.val[1], a.val[2], "f32"))

LowerDifference(a) ==
    IF ~a.ok THEN LFail(a.err)
    ELSE LOk(ir_binary("max", a.val[1], ir_unary("neg", a.val[2], "f32"), "f32"))

LowerExtrudeOf(profile, h) ==
    IF ~h.ok THEN h
    ELSE IF h.ir = None THEN LFail(Err("AttributeError", "NoneType", 0, 0))
    ELSE LowerExtrude(profile, h.ir[1])

LowerRotateOf(a) ==
    IF ~a.ok THEN LFail(a.err) ELSE LOk(LowerRotate(a.val[1], a.val[2]))

\* translate substituting p + v
LowerTranslateAdding(a) ==
    IF ~a.ok THEN LFail(a.err)
    ELSE LOk(replace_var(a.val[1], "p", ir_vec_op("vec_add", ir_var("p"), a.val[2])))

LowerTranslate(a) ==
    IF ~a.ok THEN LFail(a.err)
    ELSE LOk(replace_var(a.val[1], "p", ir_vec_op("vec_sub", ir_var("p"), a.val[2])))

\* offset answering the zero field when an argument fails to lower
LowerOffsetLenient(a) ==
    IF ~a.ok THEN LOk(ir_fx(0)) ELSE LOk(ir_binary("sub", a.val[1], a.val[2], "f32"))

LowerOffset(a) ==
    IF ~a.ok THEN LFail(a.err) ELSE LOk(ir_binary("sub", a.val[1], a.val[2], "f32"))

lower(expr) ==
    CASE expr.tag = "Number" -> LOk(ir_const(expr.value))
      [] expr.tag = "Vec3" -> LowerVec3(LowerArgs(expr.args, 3, 1, << >>))
      [] expr.tag = "Call" /\ expr.name = S_sphere ->
            LowerSphere(LowerArgs(expr.args, 1, 1, << >>))
      [] expr.tag = "Call" /\ expr.name = S_circle ->
            LFail(ValueError("circle must be used with sweep or extrude"))
      [] expr.tag = "Call" /\ expr.name = S_cylinder ->
            LowerCylinderOf(LowerArgs(expr.args, 2, 1, << >>))
      [] expr.tag = "Call" /\ expr.name = S_box ->
            LowerBoxOf(LowerArgs(expr.args, 1, 1, << >>))
      [] expr.tag = "Call" /\ expr.name = S_union ->
            IF Len(expr.args) < 2 THEN LFail(ValueError("union expects at least 2 args"))
            ELSE LowerUnion(LowerArgs(expr.args, Len(expr.args), 1, << >>))
      [] expr.tag = "Call" /\ expr.name = S_difference ->
            LowerDifference(LowerArgs(expr.args, 2, 1, << >>))
      [] expr.tag = "Call" /\ expr.name = S_polygon ->
            LFail(ValueError("polygon must be used with extrude"))
      [] expr.tag = "Call" /\ expr.name \in {S_line, S_polyline} ->
            LFail(ValueError("path must be used with sweep"))
      [] expr.tag = "Call" /\ expr.name = S_extrude ->
            IF Len(expr.args) < 2 THEN LFail(IndexError)
            ELSE LowerExtrudeOf(expr.args[1], lower(expr.args[2]))
      [] expr.tag = "Call" /\ expr.name = S_hex_nut ->
            IF Len(expr.args) # 3 THEN LFail(ValueError("hex_nut expects 3 args"))
            ELSE LowerDesugared(HexNutOf(_extract_number(expr.args[1], "hex_nut arg 0"),
                                         _extract_number(expr.args[2], "hex_nut arg 1"),
                                         _extract_number(expr.args[3], "hex_nut arg 2")))
      [] expr.tag = "Call" /\ expr.name = S_blend2D -> LowerBlend2D(expr)
      [] expr.tag = "Call" /\ expr.name = S_sweep -> LowerSweep(expr)
      [] expr.tag = "Call" /\ expr.name = S_rotate ->
            LowerRotateOf(LowerArgs(expr.args, 2, 1, << >>))
      [] expr.tag = "Call" /\ expr.name = S_translate ->
            LowerTranslate(LowerArgs(expr.args, 2, 1, << >>))
      [] expr.tag = "Call" /\ expr.name = S_offset ->
            LowerOffset(LowerArgs(expr.args, 2, 1, << >>))
      [] expr.tag = "Call" /\ expr.name = S_vec3 ->
            LowerVec3(LowerArgs(expr.args, 3, 1, << >>))
      [] OTHER -> LFail(ValueError("Unknown expression"))

(***************************************************************************)
(* GLSL emitter (dsl_glsl_ir.py).  Emitted text is a sequence of string    *)
(* fragments whose concatenation is the Python string.                     *)
(***************************************************************************)
DigitChar(d) ==
    CASE d = 0 -> "0" [] d = 1 -> "1" [] d = 2 -> "2" [] d = 3 -> "3" [] d = 4 -> "4"
      [] d = 5 -> "5" [] d = 6 -> "6" [] d = 7 -> "7" [] d = 8 -> "8" [] d = 9 -> "9"

\* str(n) for n >= 0
RECURSIVE NatChars(_)
NatChars(n) == IF n < 10 THEN <<DigitChar(n)>> ELSE Append(NatChars(n \div 10), DigitChar(n % 10))

\* n >= 0 written with exactly w digits (w >= number of digits of n)
RECURSIVE PadChars(_, _)
PadChars(n, w) == IF w = 0 THEN << >> ELSE Append(PadChars(n \div 10, w - 1), DigitChar(n % 10))

\* repr(v) of a float that is not integral: positional notation down to
\* 1e-4, exponent notation below
ReprSign(d) == IF d.m < 0 THEN <<"-">> ELSE << >>

\* m has k digits and x = d.e - (k - 1) leading fraction zeros
ReprOf(d, m, k, x) ==
    IF x > 4
    THEN ReprSign(d) \o <<DigitChar(m \div Pow10(k - 1))>>
              \o (IF k > 1 THEN <<".">> \o PadChars(m % Pow10(k - 1), k - 1) ELSE << >>)
              \o <<"e", "-">> \o (IF x < 10 THEN <<"0">> ELSE << >>) \o NatChars(x)
    ELSE ReprSign(d) \o NatChars(m \div Pow10(d.e)) \o <<".">> \o PadChars(m % Pow10(d.e), d.e)

ReprDigits(d, m, k) == ReprOf(d, m, k, d.e - (k - 1))

ReprChars(d) == ReprDigits(d, Abs(d.m), Len(NatChars(Abs(d.m))))

_fmt_f(d) ==
    IF d.e = 0
    THEN (IF d.m < 0 THEN <<"-">> ELSE << >>) \o NatChars(Abs(d.m)) \o <<".", "0">>
    ELSE ReprChars(d)

EOk(text) == [ok |-> TRUE, text |-> text, err |-> NoErr]
EFail(e) == [ok |-> FALSE, text |-> << >>, err |-> e]

Emit2Of(pre, mid, post, a, b) ==
    IF ~a.ok THEN a
    ELSE IF ~b.ok THEN b
    ELSE EOk(<<pre>> \o a.text \o <<mid>> \o b.text \o <<post>>)

Emit1Of(pre, post, a) == IF ~a.ok THEN a ELSE EOk(<<pre>> \o a.text \o <<post>>)

Emit3Of(x, y, z) ==
    IF ~x.ok THEN x
    ELSE IF ~y.ok THEN y
    ELSE IF ~z.ok THEN z
    ELSE EOk(<<"vec3(">> \o x.text \o <<", ">> \o y.text \o <<", ">> \o z.text \o <<")">>)

RECURSIVE emit_expr(_)
\* f"{pre}{emit_expr(args[0])}{mid}{emit_expr(args[1])}{post}"
Emit2(node, pre, mid, post) ==
    Emit2Of(pre, mid, post, emit_expr(node.args[1]), emit_expr(node.args[2]))

\* f"{pre}{emit_expr(args[0])}{post}"
Emit1(node, pre, post) == Emit1Of(pre, post, emit_expr(node.args[1]))

emit_expr(node) ==
    CASE node.op = "const" -> EOk(_fmt_f(IF node.value = None THEN Zero ELSE node.value[1]))
      [] node.op = "vec3" ->
            Emit3Of(emit_expr(node.args[1]), emit_expr(node.args[2]), emit_expr(node.args[3]))
      [] node.op = "var" -> EOk(<<"p">>)
      [] node.op = "add" -> Emit2(node, "(", " + ", ")")
      [] node.op = "sub" -> Emit2(node, "(", " - ", ")")
      [] node.op = "neg" -> Emit1(node, "(-", ")")
      [] node.op = "min" -> Emit2(node, "min(", ", ", ")")
      [] node.op = "max" -> Emit2(node, "max(", ", ", ")")
      [] node.op = "length" -> Emit1(node, "length(", ")")
      [] node.op = "vec_add" -> Emit2(node, "(", " + ", ")")
      [] node.op = "vec_sub" -> Emit2(node, "(", " - ", ")")
      [] node.op = "vec_abs" -> Emit1(node, "abs(", ")")
      [] node.op = "vec_max" -> Emit2(node, "max(", ", ", ")")
      [] node.op = "vec_x" -> Emit1(node, "", ".x")
      [] node.op = "vec_y" -> Emit1(node, "", ".y")
      [] node.op = "vec_z" -> Emit1(node, "", ".z")
      [] OTHER -> EFail(ValueError("Unknown op"))

EmitFunction(expr) ==
    IF ~expr.ok THEN expr
    ELSE EOk(<<"float sdf(vec3 p)", " {\n    ", "return", " ">> \o expr.text \o <<";\n}\n">>)

emit_glsl(node) == EmitFunction(emit_expr(node))

(***************************************************************************)
(* IR evaluator (dsl_interp_ir.py).  A value is a scalar s or a 3-tuple v  *)
(* in fixed point.  PyTypeError is Python's own TypeError (float() of a    *)
(* tuple, subscript of a float).                                           *)
(***************************************************************************)
VScalar(x) == [ok |-> TRUE, isvec |-> FALSE, s |-> x, v |-> <<0, 0, 0>>, err |-> NoErr]
VVec(x) == [ok |-> TRUE, isvec |-> TRUE, s |-> 0, v |-> x, err |-> NoErr]
VFail(e) == [ok |-> FALSE, isvec |-> FALSE, s |-> 0, v |-> <<0, 0, 0>>, err |-> e]
PyTypeError == Err("PyTypeError", "bad operand type", 0, 0)
IREvalError == Err("IREvalError", "Unknown op", 0, 0)

\* the Python operation of a scalar or componentwise binary op
BinOp(op, a, b) ==
    CASE op \in {"add", "vec_add"} -> a + b
      [] op \in {"sub", "vec_sub"} -> a - b
      [] op = "min" -> Min2(a, b)
      [] op \in {"max", "vec_max"} -> Max2(a, b)

EvalScalar2Of(op, a, b) ==
    IF ~a.ok THEN a
    ELSE IF a.isvec THEN VFail(PyTypeError)
    ELSE IF ~b.ok THEN b
    ELSE IF b.isvec THEN VFail(PyTypeError)
    ELSE VScalar(BinOp(op, a.s, b.s))

EvalScalar1Of(op, a) ==
    IF ~a.ok THEN a
    ELSE IF a.isvec THEN VFail(PyTypeError)
    ELSE VScalar(IF op = "neg" THEN -a.s ELSE Abs(a.s))

EvalVec2Of(op, a, b) ==
    IF ~a.ok THEN a
    ELSE IF ~b.ok THEN b
    ELSE IF ~a.isvec \/ ~b.isvec THEN VFail(PyTypeError)
    ELSE VVec([k \in 1..3 |-> BinOp(op, a.v[k], b.v[k])])

EvalOfVecOf(op, a) ==
    IF ~a.ok THEN a
    ELSE IF ~a.isvec THEN VFail(PyTypeError)
    ELSE CASE op = "length" ->
                 VScalar(FxSqrt(FxMul(a.v[1], a.v[1]) + FxMul(a.v[2], a.v[2])
                                  + FxMul(a.v[3], a.v[3])))
           [] op = "vec_abs" -> VVec(<<Abs(a.v[1]), Abs(a.v[2]), Abs(a.v[3])>>)
           [] op = "vec_x" -> VScalar(a.v[1])
           [] op = "vec_y" -> VScalar(a.v[2])
           [] OTHER -> VScalar(a.v[3])

EvalVec3Of(x, y, z) ==
    IF ~x.ok THEN x
    ELSE IF ~y.ok THEN y
    ELSE IF ~z.ok THEN z
    ELSE IF x.isvec \/ y.isvec \/ z.isvec THEN VFail(PyTypeError)
    ELSE VVec(<<x.s, y.s, z.s>>)

RECURSIVE eval_ir(_, _)
\* f(float(eval_ir(args[0])), float(eval_ir(args[1]))) for add, sub, min, max
EvalScalar2(node, env) ==
    EvalScalar2Of(node.op, eval_ir(node.args[1], env), eval_ir(node.args[2], env))

\* -float(eval_ir(args[0])) for neg, abs(float(eval_ir(args[0]))) for abs
EvalScalar1(node, env) == EvalScalar1Of(node.op, eval_ir(node.args[1], env))

\* a = eval_ir(args[0]); b = eval_ir(args[1]); componentwise on a[k], b[k]
\* for vec_add, vec_sub, vec_max
EvalVec2(node, env) ==
    EvalVec2Of(node.op, eval_ir(node.args[1], env), eval_ir(node.args[2], env))

\* v = eval_ir(args[0]) used as a tuple: length, vec_abs, vec_x, vec_y, vec_z
EvalOfVec(node, env) == EvalOfVecOf(node.op, eval_ir(node.args[1], env))

eval_ir(node, env) ==
    CASE node.op = "const" ->
            VScalar(FxOf(IF node.value = None THEN Zero ELSE node.value[1]))
      [] node.op = "vec3" ->
            EvalVec3Of(eval_ir(node.args[1], env), eval_ir(node.args[2], env),
                       eval_ir(node.args[3], env))
      [] node.op = "var" -> VVec(env)
      [] node.op \in {"add", "sub", "min", "max"} -> EvalScalar2(node, env)
      [] node.op \in {"neg", "abs"} -> EvalScalar1(node, env)
      [] node.op \in {"vec_add", "vec_sub", "vec_max"} -> EvalVec2(node, env)
      [] node.op \in {"length", "vec_abs", "vec_x", "vec_y", "vec_z"} -> EvalOfVec(node, env)
      [] OTHER -> VFail(IREvalError)

(***************************************************************************)
(* The AST interpreter (dsl_interp_ast.py) for numbers, vec3 and the calls *)
(* of sphere, box, cylinder, union, difference, translate and offset; the  *)
(* branches of vec2, polygon, extrude and rotate are left out.  eval_expr  *)
(* gives a float, a tuple or a field; a field is a closure, kept here as   *)
(* the name of the call and the values of its arguments, and call_field    *)
(* is its application to a point.                                          *)
(***************************************************************************)
AValue(kind, x, v, name, args) == [kind |-> kind, x |-> x, v |-> v, name |-> name, args |-> args]
AFloat(x) == AValue("float", x, << >>, << >>, << >>)
ATuple(v) == AValue("tuple", 0, v, << >>, << >>)
AField(name, args) == AValue("field", 0, << >>, name, args)
EvalError(msg) == Err("EvalError", msg, 0, 0)
\* a, b = args with len(args) # 2
UnpackError == Err("ValueError", "values to unpack (expected 2)", 0, 0)

v_len(a) == FxSqrt(FxMul(a[1], a[1]) + FxMul(a[2], a[2]) + FxMul(a[3], a[3]))

\* sdf_sphere(r)(p)
sdf_sphere(r, p) == v_len(p) - r
\* sdf_box(size)(p), q = v_sub(v_abs(p), size)
BoxOfQ(q) ==
    v_len(<<Max2(q[1], 0), Max2(q[2], 0), Max2(q[3], 0)>>)
        + Min2(Max2(q[1], Max2(q[2], q[3])), 0)
sdf_box(size, p) == BoxOfQ(<<Abs(p[1]) - size[1], Abs(p[2]) - size[2], Abs(p[3]) - size[3]>>)
\* sdf_cylinder(r, h)(p) from dx and dy
CylinderOf(dx, dy) ==
    Min2(Max2(dx, dy), 0)
        + FxSqrt(FxMul(Max2(dx, 0), Max2(dx, 0)) + FxMul(Max2(dy, 0), Max2(dy, 0)))
sdf_cylinder(r, h, p) ==
    CylinderOf(FxSqrt(FxMul(p[1], p[1]) + FxMul(p[3], p[3])) - r, Abs(p[2]) - h)

RECURSIVE eval_expr(_), EvalExprArgs(_, _, _), EvalExprArgsNext(_, _, _, _)
\* [eval_expr(a) for a in expr.args]
EvalExprArgs(args, k, acc) ==
    IF k > Len(args) THEN Ok(acc)
    ELSE EvalExprArgsNext(args, k, acc, eval_expr(args[k]))
EvalExprArgsNext(args, k, acc, r) ==
    IF ~r.ok THEN r ELSE EvalExprArgs(args, k + 1, Append(acc, r.val))

EvalExprVec3(r) ==
    IF ~r.ok THEN r
    ELSE IF \E k \in 1..3 : r.val[k].kind # "float"
    THEN Fail(EvalError("vec3 components must be numbers"))
    ELSE Ok(ATuple(<<r.val[1].x, r.val[2].x, r.val[3].x>>))

EvalExprCall(name, r) ==
    IF ~r.ok THEN r
    ELSE CASE name \in {S_sphere, S_box} ->
                 IF Len(r.val) < 1 THEN Fail(IndexError) ELSE Ok(AField(name, r.val))
           [] name = S_cylinder ->
                 IF Len(r.val) < 2 THEN Fail(IndexError) ELSE Ok(AField(name, r.val))
           [] name = S_union ->
                 IF Len(r.val) < 2 THEN Fail(EvalError("union expects at least 2 args"))
                 ELSE Ok(AField(name, r.val))
           [] name \in {S_difference, S_translate, S_offset} ->
                 IF Len(r.val) # 2 THEN Fail(UnpackError) ELSE Ok(AField(name, r.val))
           [] name \notin {S_polygon, S_extrude, S_rotate} ->
                 Fail(EvalError("Unknown function"))

eval_expr(expr) ==
    CASE expr.tag = "Number" -> Ok(AFloat(FxOf(expr.value)))
      [] expr.tag = "Vec3" -> EvalExprVec3(EvalExprArgs(expr.args, 1, << >>))
      [] expr.tag = "Call" -> EvalExprCall(expr.name, EvalExprArgs(expr.args, 1, << >>))

RECURSIVE call_field(_, _), CallFields(_, _, _, _), CallFieldsNext(_, _, _, _, _)
\* min(f(p) for f in fields)
CallFields(fields, k, p, least) ==
    IF k > Len(fields) THEN VScalar(least[1])
    ELSE CallFieldsNext(fields, k, p, least, call_field(fields[k], p))
CallFieldsNext(fields, k, p, least, r) ==
    IF ~r.ok THEN r
    ELSE CallFields(fields, k + 1, p,
                    IF least = None THEN Some(r.s) ELSE Some(Min2(least[1], r.s)))

\* max(a(p), -b(p))
CallDifference(a, b) ==
    IF ~a.ok THEN a ELSE IF ~b.ok THEN b ELSE VScalar(Max2(a.s, -b.s))
\* g(p) - d
CallOffset(g, d) ==
    IF ~g.ok THEN g ELSE IF d.kind # "float" THEN VFail(PyTypeError) ELSE VScalar(g.s - d.x)

\* f(p) for the value f of eval_expr
call_field(f, p) ==
    IF f.kind # "field" THEN VFail(PyTypeError)
    ELSE CASE f.name = S_sphere ->
                 IF f.args[1].kind # "float" THEN VFail(PyTypeError)
                 ELSE VScalar(sdf_sphere(f.args[1].x, p))
           [] f.name = S_box ->
                 IF f.args[1].kind # "tuple" THEN VFail(PyTypeError)
                 ELSE VScalar(sdf_box(f.args[1].v, p))
           [] f.name = S_cylinder ->
                 IF f.args[1].kind # "float" \/ f.args[2].kind # "float" THEN VFail(PyTypeError)
                 ELSE VScalar(sdf_cylinder(f.args[1].x, f.args[2].x, p))
           [] f.name = S_union -> CallFields(f.args, 1, p, None)
           [] f.name = S_difference ->
                 CallDifference(call_field(f.args[1], p), call_field(f.args[2], p))
           [] f.name = S_translate ->
                 IF f.args[2].kind # "tuple" THEN VFail(PyTypeError)
                 ELSE call_field(f.args[1], <<p[1] - f.args[2].v[1], p[2] - f.args[2].v[2],
                                             p[3] - f.args[2].v[3]>>)
           [] f.name = S_offset -> CallOffset(call_field(f.args[1], p), f.args[2])

\* eval_expr(expr)(p)
CallEvalExpr(f, p) == IF ~f.ok THEN VFail(f.err) ELSE call_field(f.val, p)

(***************************************************************************)
(* Source text of an AST: numbers as numeric literals, Vec2/Vec3 as        *)
(* vec2(...)/vec3(...), Call as name(arg, ...).                            *)
(***************************************************************************)
NumberText(d) ==
    IF d.e = 0 THEN NatChars(d.m)
    ELSE NatChars(d.m \div Pow10(d.e)) \o <<".">> \o PadChars(d.m % Pow10(d.e), d.e)

RECURSIVE unparse(_), UnparseArgs(_, _)
UnparseArgs(args, k) ==
    IF k > Len(args) THEN << >>
    ELSE (IF k > 1 THEN <<",", " ">> ELSE << >>) \o unparse(args[k]) \o UnparseArgs(args, k + 1)

unparse(node) ==
    IF node.tag = "Number" THEN NumberText(node.value)
    ELSE IF node.tag = "Vec2" THEN S_vec2 \o <<"(">> \o UnparseArgs(node.args, 1) \o <<")">>
    ELSE IF node.tag = "Vec3" THEN S_vec3 \o <<"(">> \o UnparseArgs(node.args, 1) \o <<")">>
    ELSE node.name \o <<"(">> \o UnparseArgs(node.args, 1) \o <<")">>

(***************************************************************************)
(* Inputs.                                                                 *)
(***************************************************************************)
\* all sequences over S of length at most n
RECURSIVE SeqsUpTo(_, _)
SeqsUpTo(S, n) ==
    IF n = 0 THEN {<< >>}
    ELSE Bind([shorter \in {SeqsUpTo(S, n - 1)} |->
            shorter \cup {Append(q, x) : q \in {r \in shorter : Len(r) = n - 1}, x \in S}])

SrcChars == {"0", "1", ".", "a", "(", ")", ",", " ", "#", "\n", "$"}
ShortSources == SeqsUpTo(SrcChars, MaxSrcLen)

Num(m, e) == Number(Dec(m, e))
N0 == Num(0, 0)
N1 == Num(1, 0)
N2 == Num(2, 0)
N3 == Num(3, 0)
Nhalf == Num(5, 1)
V3(x, y, z) == Vec3(Num(x, 0), Num(y, 0), Num(z, 0))
V2(x, y) == Vec2(Num(x, 0), Num(y, 0))
Sphere(r) == Call(S_sphere, <<r>>)
Circle(r) == Call(S_circle, <<r>>)
Helix(r, pitch, turns) == Call(S_helix, <<r, pitch, turns>>)
Line(a, b) == Call(S_line, <<a, b>>)
\* counter-clockwise square, the same square clockwise, an arrow (simple,
\* not convex), a bow tie (self-intersecting), a triangle
SquareCCW == Call(S_polygon, <<V2(0, 0), V2(1, 0), V2(1, 1), V2(0, 1)>>)
SquareCW == Call(S_polygon, <<V2(0, 0), V2(0, 1), V2(1, 1), V2(1, 0)>>)
Arrow == Call(S_polygon, <<V2(0, 0), V2(2, 1), V2(0, 2), V2(1, 1)>>)
BowTie == Call(S_polygon, <<V2(0, 0), V2(1, 1), V2(1, 0), V2(0, 1)>>)
Triangle == Call(S_polygon, <<V2(0, 0), V2(1, 0), V2(0, 1)>>)
Point == Call(S_polygon, <<V2(1, 1), V2(1, 1), V2(1, 1)>>)
LineX == Line(V3(0, 0, 0), V3(1, 0, 0))
LineY == Line(V3(0, 0, 0), V3(0, 2, 0))
Elbow == Call(S_polyline, <<V3(0, 0, 0), V3(1, 0, 0), V3(1, 1, 0)>>)
Zigzag == Call(S_polyline, <<V3(0, 0, 0), V3(1, 0, 0), V3(1, 1, 0), V3(2, 1, 0)>>)
Stutter == Call(S_polyline, <<V3(0, 0, 0), V3(0, 0, 0), V3(1, 0, 0)>>)
Still == Call(S_polyline, <<V3(1, 1, 1), V3(1, 1, 1)>>)

\* one representative argument of each type, a helix, and a call of an
\* unknown name
ArgReps ==
    {N1, V2(1, 1), V3(1, 0, 0), Sphere(N1), Triangle, Circle(N1), LineX,
     Helix(N1, N1, Num(125, 3)), Call(S_invalid_func, <<N1>>)}

CallNames ==
    {S_sphere, S_cylinder, S_box, S_hex_nut, S_circle, S_polygon, S_line, S_polyline, S_helix,
     S_union, S_difference, S_rotate, S_translate, S_offset, S_extrude, S_sweep, S_blend2D,
     S_invalid_func}

\* every call of a name of the language on at most n representative arguments
CallsUpTo(n) == {Call(name, args) : name \in CallNames, args \in SeqsUpTo(ArgReps, n)}

\* programs written out by hand: the examples of the prompt and the tests,
\* nested transforms, and the polygon and path shapes above
Programs ==
    {N1, Num(15, 1), Num(125, 3),
     Sphere(Num(15, 1)),
     Call(S_union, <<Sphere(N1), Call(S_box, <<Vec3(Nhalf, Nhalf, Nhalf)>>)>>),
     Call(S_translate, <<Sphere(N1), V3(1, 0, 0)>>),
     Call(S_difference, <<Call(S_box, <<V3(1, 1, 1)>>), Sphere(Nhalf)>>),
     Call(S_difference, <<Sphere(N1), Sphere(Nhalf)>>),
     Call(S_union, <<Sphere(N1), Sphere(N2), Sphere(N3)>>),
     Call(S_cylinder, <<N1, Nhalf>>),
     Call(S_union, <<Sphere(N1), Call(S_translate, <<Circle(N1), V3(1, 0, 0)>>)>>),
     Call(S_translate, <<Call(S_translate, <<Sphere(N1), V3(1, 0, 0)>>), V3(0, 1, 0)>>),
     Call(S_translate, <<Call(S_union, <<Sphere(N1), Call(S_box, <<V3(1, 1, 1)>>)>>), V3(1, 0, 0)>>),
     Call(S_translate, <<Call(S_difference, <<Sphere(N2), Sphere(N1)>>), V3(1, 0, 0)>>),
     Call(S_translate, <<Call(S_offset, <<Sphere(N1), Nhalf>>), V3(0, 1, 0)>>),
     Call(S_union, <<Sphere(N1), Call(S_cylinder, <<Nhalf, N1>>), Call(S_box, <<V3(1, 1, 1)>>)>>),
     Call(S_cylinder, <<N1, Nhalf>>),
     Call(S_union, <<Sphere(N1), Call(S_translate, <<Circle(N1), V3(1, 0, 0)>>)>>),
     Call(S_rotate, <<Sphere(N1), V3(0, 0, 0)>>),
     Call(S_rotate, <<Call(S_cylinder, <<N1, N1>>), V3(30, 0, 0)>>),
     Call(S_offset, <<Sphere(N1), Nhalf>>),
     Call(S_translate, <<Call(S_translate, <<Sphere(N1), V3(1, 0, 0)>>), V3(0, 1, 0)>>),
     Call(S_translate, <<Call(S_union, <<Sphere(N1), Call(S_box, <<V3(1, 1, 1)>>)>>), V3(1, 0, 0)>>),
     Call(S_translate, <<Sphere(N1), N1>>),
     Call(S_hex_nut, <<N1, Nhalf, Nhalf>>),
     Call(S_hex_nut, <<N0, Nhalf, Nhalf>>),
     Call(S_hex_nut, <<N1, Sphere(N1), Nhalf>>),
     Call(S_extrude, <<SquareCCW, N1>>),
     Call(S_extrude, <<SquareCW, N1>>),
     Call(S_extrude, <<Arrow, N1>>),
     Call(S_extrude, <<BowTie, N1>>),
     Call(S_extrude, <<Point, N1>>),
     Call(S_extrude, <<Circle(N1), Nhalf>>),
     Call(S_extrude, <<Circle(Sphere(N1)), Nhalf>>),
     Call(S_extrude, <<Call(S_polygon, <<Vec2(N1, Sphere(N1)), V2(1, 0), V2(0, 1)>>), N1>>),
     Call(S_sweep, <<Circle(Nhalf), LineX>>),
     Call(S_sweep, <<Circle(Nhalf), LineY>>),
     Call(S_sweep, <<Circle(Nhalf), Elbow>>),
     Call(S_sweep, <<Circle(Nhalf), Zigzag>>),
     Call(S_sweep, <<Circle(Nhalf), Stutter>>),
     Call(S_sweep, <<Circle(Nhalf), Still>>),
     Call(S_sweep, <<Triangle, Elbow>>),
     Call(S_sweep, <<Arrow, LineX>>),
     Call(S_sweep, <<Circle(Nhalf), Helix(N1, N1, N1)>>),
     Call(S_sweep, <<Triangle, Helix(N1, N1, N2)>>),
     Call(S_sweep, <<Triangle, Helix(N1, N0, N0)>>),
     Call(S_sweep, <<Circle(Nhalf), Line(V3(0, 0, 0), Vec3(N1, Sphere(N1), N0))>>),
     Call(S_blend2D, <<Circle(N1), SquareCCW, LineY>>),
     Call(S_blend2D, <<Circle(Nhalf), Circle(N1), LineX>>),
     Call(S_blend2D, <<Triangle, SquareCW, Elbow>>),
     Call(S_blend2D, <<Circle(N1), Circle(N2), Stutter>>),
     Call(S_blend2D, <<Circle(N1), Circle(N2), Still>>),
     Call(S_blend2D, <<Circle(N1), BowTie, LineX>>),
     Call(S_blend2D, <<Circle(N1), Circle(N2), Helix(N1, N1, Num(125, 3))>>),
     Call(S_blend2D, <<Circle(N1), Circle(N2), Helix(N1, N1, N0)>>),
     Call(S_blend2D, <<Sphere(N1), Circle(N2), LineX>>),
     Call(S_vec3, <<N1, N1, N1>>), Call(S_vec3, <<N1, N1>>), Call(S_vec2, <<N1, N1>>),
     Call(S_vec2, <<N1, N1, N1>>),
     Call(S_sphere, <<Call(S_vec2, <<N1, N1>>)>>),
     Call(S_invalid_func, <<N1>>)}

\* text the printer does not produce: redundant zeros, a dot without
\* fraction digits, comments, line breaks, a trailing comma, a bare identifier
Variants ==
    { S_sphere \o <<"(", "1", ".", "0", ")">>,
      S_sphere \o <<"(", "1", ".", ")">>,
      S_sphere \o <<"(", "0", "1", ")">>,
      S_sphere \o <<"(", ".", "5", "0", ")">>,
      S_sphere \o <<"(", "1", ".", "5", ".", "2", ")">>,
      S_sphere \o <<"(", "\n", " ", "1", " ", ")", " ", "#", "x", "\n">>,
      <<"#", "c", "\n">> \o S_box \o <<"(", "\n">> \o S_vec3 \o <<"(", "1", ",", "1", ",", "\n", "1", ")", ")">>,
      S_sphere \o <<"(", "1", ",", ")">>,
      S_sphere \o <<"(", "1", ")", ")">>,
      S_sphere \o <<"(", "-", "1", ")">>,
      S_sphere }

\* vec2(x, y) for x and y one of 1 and -1, as text
SignedVec2(sx, sy) ==
    S_vec2 \o <<"(">> \o sx \o <<"1", ",", " ">> \o sy \o <<"1", ")">>

\* the blend2D program of examples_blend2d.py whose square is centred at the
\* origin, on the line from the origin to (0, 2, 0)
BlendCentredSquare ==
    S_blend2D \o <<"(">> \o unparse(Circle(N1)) \o <<",", " ">>
      \o S_polygon \o <<"(">>
      \o SignedVec2(<<"-">>, <<"-">>) \o <<",", " ">> \o SignedVec2(<< >>, <<"-">>) \o <<",", " ">>
      \o SignedVec2(<< >>, << >>) \o <<",", " ">> \o SignedVec2(<<"-">>, << >>)
      \o <<")", ",", " ">> \o unparse(LineY) \o <<")">>

Sources ==
    ShortSources \cup Variants \cup {BlendCentredSquare}
      \cup {unparse(a) : a \in Programs \cup CallsUpTo(MaxCallArgs)}

Points == {<<0, 0, 0>>, <<Fx(1), 0, 0>>, <<Fx(2), 0, 0>>, <<0, Fx(1), 0>>}

(***************************************************************************)
(* The compiler as a state machine: a source is tokenized and parsed; the  *)
(* AST is typechecked (main.py), or lowered and then emitted as GLSL       *)
(* (server._compile) or evaluated at a point (server.eval_endpoint).       *)
(***************************************************************************)
Blank ==
    /\ tokens = << >> /\ ast = None /\ typ = "" /\ ir = None
    /\ glsl = << >> /\ val = None /\ pt = <<0, 0, 0>> /\ err = NoErr

Init == pc = "source" /\ src \in Sources /\ Blank

Tokenize ==
    /\ pc = "source"
    /\ LET r == tokenize(src)
       IN IF r.ok THEN pc' = "lexed" /\ tokens' = r.val /\ err' = err
          ELSE pc' = "lex_failed" /\ tokens' = tokens /\ err' = r.err
    /\ UNCHANGED <<src, ast, typ, ir, glsl, val, pt>>

Parse ==
    /\ pc = "lexed"
    /\ LET r == parse(tokens)
       IN IF r.ok THEN pc' = "parsed" /\ ast' = r.node /\ err' = err
          ELSE pc' = "parse_failed" /\ ast' = ast /\ err' = r.err
    /\ UNCHANGED <<src, tokens, typ, ir, glsl, val, pt>>

TypeCheck ==
    /\ pc = "parsed"
    /\ LET r == type_of(ast[1])
       IN IF r.ok THEN pc' = "typed" /\ typ' = r.ty /\ err' = err
          ELSE pc' = "type_failed" /\ typ' = typ /\ err' = r.err
    /\ UNCHANGED <<src, tokens, ast, ir, glsl, val, pt>>

Lower ==
    /\ pc = "parsed"
    /\ LET r == lower(ast[1])
       IN IF r.ok THEN pc' = "lowered" /\ ir' = r.ir /\ err' = err
          ELSE pc' = "lower_failed" /\ ir' = ir /\ err' = r.err
    /\ UNCHANGED <<src, tokens, ast, typ, glsl, val, pt>>

Emit ==
    /\ pc = "lowered"
    /\ LET r == IF ir = None THEN EFail(Err("AttributeError", "NoneType", 0, 0))
                ELSE emit_glsl(ir[1])
       IN IF r.ok THEN pc' = "emitted" /\ glsl' = r.text /\ err' = err
          ELSE pc' = "emit_failed" /\ glsl' = glsl /\ err' = r.err
    /\ UNCHANGED <<src, tokens, ast, typ, ir, val, pt>>

Eval ==
    /\ pc = "lowered"
    /\ \E p \in Points :
         LET r == IF ir = None THEN VFail(Err("AttributeError", "NoneType", 0, 0))
                  ELSE eval_ir(ir[1], p)
         IN /\ pt' = p
            /\ IF r.ok THEN pc' = "evaluated" /\ val' = Some(r) /\ err' = err
               ELSE pc' = "eval_failed" /\ val' = val /\ err' = r.err
    /\ UNCHANGED <<src, tokens, ast, typ, ir, glsl>>

Next == Tokenize \/ Parse \/ TypeCheck \/ Lower \/ Emit \/ Eval

Spec == Init /\ [][Next]_vars

(***************************************************************************)
(* The front end alone, over every short token stream: the lexemes are     *)
(* written one per column, separated by blanks.                            *)
(***************************************************************************)
S_f == <<"f">>
TokLexemes == {<<"1">>, S_f, S_vec2, S_vec3, <<"(">>, <<")">>, <<",">>}

RECURSIVE JoinLexemes(_, _)
JoinLexemes(lexemes, k) ==
    IF k > Len(lexemes) THEN << >>
    ELSE (IF k > 1 THEN <<" ">> ELSE << >>) \o lexemes[k] \o JoinLexemes(lexemes, k + 1)

TokenTexts == {JoinLexemes(q, 1) : q \in SeqsUpTo(TokLexemes, MaxTokLen)}

InitParse ==
    /\ pc = "source"
    /\ src \in TokenTexts \cup Variants \cup {unparse(a) : a \in Programs}
    /\ Blank
NextParse == Tokenize \/ Parse
SpecParse == InitParse /\ [][NextParse]_vars

(***************************************************************************)
(* The typechecker alone, on ASTs the parser can produce.                  *)
(***************************************************************************)
TypeInputs ==
    CallsUpTo(MaxArgs) \cup Programs
      \cup {Vec2(N1, Sphere(N1)), Vec2(V2(1, 1), N1), Vec3(N1, N1, V3(1, 1, 1)),
            Vec3(Call(S_invalid_func, <<N1>>), N1, N1), V2(1, 1), V3(1, 1, 1)}

InitType ==
    /\ pc = "parsed" /\ src = << >> /\ tokens = << >>
    /\ ast \in {Some(a) : a \in {b \in TypeInputs : b.tag # "Call" \/ b.name \notin {S_vec2, S_vec3}}}
    /\ typ = "" /\ ir = None /\ glsl = << >> /\ val = None /\ pt = <<0, 0, 0>> /\ err = NoErr
NextType == TypeCheck
SpecType == InitType /\ [][NextType]_vars

(***************************************************************************)
(* Polygon admission alone: _extract_polygon on every triangle of a small  *)
(* grid, every quadrilateral of the grid from the origin, and the shapes   *)
(* above; an admitted polygon is then extruded.                            *)
(***************************************************************************)
GridMax == 2
GridPoints == {V2(x, y) : x \in 0..GridMax, y \in 0..GridMax}
Pentagon == Call(S_polygon, <<V2(1, 0), V2(2, 0), V2(2, 1), V2(1, 2), V2(0, 1)>>)
Pentagram == Call(S_polygon, <<V2(1, 0), V2(2, 1), V2(0, 1), V2(2, 0), V2(1, 2)>>)
Polygons ==
    {Call(S_polygon, <<a, b, c>>) : a \in GridPoints, b \in GridPoints, c \in GridPoints}
      \cup {Call(S_polygon, <<V2(0, 0), b, c, d>>) :
                b \in GridPoints, c \in GridPoints, d \in GridPoints}
      \cup {SquareCCW, SquareCW, Arrow, BowTie, Triangle, Point, Pentagon, Pentagram}

InitGeom ==
    /\ pc = "polygon" /\ src = << >> /\ tokens = << >>
    /\ ast \in {Some(a) : a \in Polygons}
    /\ typ = "" /\ ir = None /\ glsl = << >> /\ val = None /\ pt = <<0, 0, 0>> /\ err = NoErr

\* poly = _extract_polygon(profile)
ExtractPolygon ==
    /\ pc = "polygon"
    /\ LET r == _extract_polygon(ast[1])
       IN IF r.ok THEN pc' = "admitted" /\ val' = Some(r.val) /\ err' = err
          ELSE pc' = "rejected" /\ val' = val /\ err' = r.err
    /\ UNCHANGED <<src, tokens, ast, typ, ir, glsl, pt>>

\* lower(extrude(profile, 1))
Extrude ==
    /\ pc = "admitted"
    /\ LET r == lower(Call(S_extrude, <<ast[1], N1>>))
       IN IF r.ok THEN pc' = "lowered" /\ ir' = r.ir /\ err' = err
          ELSE pc' = "lower_failed" /\ ir' = ir /\ err' = r.err
    /\ UNCHANGED <<src, tokens, ast, typ, glsl, val, pt>>

NextGeom == ExtractPolygon \/ Extrude
SpecGeom == InitGeom /\ [][NextGeom]_vars

(***************************************************************************)
(* Lowering with object identity.  Python's IR nodes are objects: a heap   *)
(* is the sequence of the objects allocated so far, object k being H[k],   *)
(* and the arguments of an object are ids.  A result is [h, id]: the heap  *)
(* after the call and the id of the object returned.                       *)
(***************************************************************************)
HNode(op, args) == [op |-> op, args |-> args]

\* IR(op, args, ...) allocated on the heap of A = [h, ids]
HeapNew(A, op) == [h |-> Append(A.h, HNode(op, A.ids)), id |-> Len(A.h) + 1]

RECURSIVE HeapReplace(_, _, _), HeapReplaceArgs(_, _, _, _, _)
\* replace_var: repl itself for a var, a new object otherwise
HeapReplace(H, id, repl) ==
    IF H[id].op = "var" THEN [h |-> H, id |-> repl]
    ELSE HeapNew(HeapReplaceArgs(H, H[id].args, 1, << >>, repl), H[id].op)

HeapReplaceNext(args, k, acc, repl, R) ==
    HeapReplaceArgs(R.h, args, k + 1, Append(acc, R.id), repl)

\* [replace_var(a, name, repl) for a in node.args]
HeapReplaceArgs(H, args, k, acc, repl) ==
    IF k > Len(args) THEN [h |-> H, ids |-> acc]
    ELSE HeapReplaceNext(args, k, acc, repl, HeapReplace(H, args[k], repl))

\* sphere: p, length(p), sub(length, r)
HeapSphere(R) ==
    [h |-> R.h \o <<HNode("var", << >>), HNode("length", <<Len(R.h) + 1>>),
                    HNode("sub", <<Len(R.h) + 2, R.id>>)>>,
     id |-> Len(R.h) + 3]

\* cylinder: the objects in the order the branch allocates them, b objects
\* being allocated before
HeapCylinderAt(b, r, h) ==
    << HNode("var", << >>),                      \* p
       HNode("vec_abs", <<b + 1>>),              \* p_abs
       HNode("vec_y", <<b + 2>>),                \* y
       HNode("neg", <<b + 3>>),                  \* neg_y
       HNode("max", <<b + 3, b + 4>>),           \* abs_y
       HNode("sub", <<b + 5, h>>),               \* dy
       HNode("vec_x", <<b + 1>>),                \* x
       HNode("vec_z", <<b + 1>>),                \* z
       HNode("const", << >>),
       HNode("vec3", <<b + 7, b + 9, b + 8>>),   \* radial_vec
       HNode("length", <<b + 10>>),              \* radial
       HNode("sub", <<b + 11, r>>),              \* dx
       HNode("max", <<b + 12, b + 6>>),
       HNode("const", << >>),
       HNode("min", <<b + 13, b + 14>>),         \* inside
       HNode("const", << >>),
       HNode("max", <<b + 12, b + 16>>),         \* max_dx
       HNode("const", << >>),
       HNode("max", <<b + 6, b + 18>>),          \* max_dy
       HNode("const", << >>),
       HNode("vec3", <<b + 17, b + 19, b + 20>>),
       HNode("length", <<b + 21>>),              \* out
       HNode("add", <<b + 15, b + 22>>) >>

HeapCylinder(R, Hh) ==
    [h |-> Hh.h \o HeapCylinderAt(Len(Hh.h), R.id, Hh.id), id |-> Len(Hh.h) + 23]

\* translate: p, shifted = vec_sub(p, v), replace_var(g, "p", shifted)
HeapTranslate(G, V) ==
    HeapReplace(V.h \o <<HNode("var", << >>), HNode("vec_sub", <<Len(V.h) + 1, V.id>>)>>,
                G.id, Len(V.h) + 2)

RECURSIVE HeapLower(_, _)
HeapVec3Z(X, Y, Z) == [h |-> Append(Z.h, HNode("vec3", <<X.id, Y.id, Z.id>>)), id |-> Len(Z.h) + 1]
HeapVec3Y(X, Y, expr) == HeapVec3Z(X, Y, HeapLower(Y.h, expr.args[3]))
HeapVec3X(X, expr) == HeapVec3Y(X, HeapLower(X.h, expr.args[2]), expr)
HeapCylinderR(R, expr) == HeapCylinder(R, HeapLower(R.h, expr.args[2]))
HeapTranslateG(G, expr) == HeapTranslate(G, HeapLower(G.h, expr.args[2]))

\* lower on the heap H, for numbers, vec3, sphere, cylinder and translate
HeapLower(H, expr) ==
    CASE expr.tag = "Number" -> [h |-> Append(H, HNode("const", << >>)), id |-> Len(H) + 1]
      [] expr.tag = "Vec3" -> HeapVec3X(HeapLower(H, expr.args[1]), expr)
      [] expr.tag = "Call" /\ expr.name = S_sphere -> HeapSphere(HeapLower(H, expr.args[1]))
      [] expr.tag = "Call" /\ expr.name = S_cylinder ->
            HeapCylinderR(HeapLower(H, expr.args[1]), expr)
      [] expr.tag = "Call" /\ expr.name = S_translate ->
            HeapTranslateG(HeapLower(H, expr.args[1]), expr)

\* spheres and cylinders over a few numbers, translated once or twice
HeapNumbers == {N0, N1, N2, N3, Nhalf}
HeapSolids ==
    {Sphere(r) : r \in HeapNumbers}
      \cup {Call(S_cylinder, <<r, h>>) : r \in HeapNumbers, h \in HeapNumbers}
HeapPrograms ==
    HeapSolids
      \cup {Call(S_translate, <<g, v>>) : g \in HeapSolids, v \in {V3(1, 0, 0), V3(0, 1, 0)}}
      \cup {Call(S_translate, <<Call(S_translate, <<g, V3(1, 0, 0)>>), V3(0, 1, 0)>>) :
               g \in {Sphere(N1), Call(S_cylinder, <<N1, Nhalf>>)}}

InitHeap ==
    /\ pc = "parsed" /\ src = << >> /\ tokens = << >>
    /\ ast \in {Some(a) : a \in HeapPrograms}
    /\ typ = "" /\ ir = None /\ glsl = << >> /\ val = None /\ pt = <<0, 0, 0>> /\ err = NoErr

\* ir = lower(ast), the objects it allocates kept
LowerObjects ==
    /\ pc = "parsed"
    /\ pc' = "lowered"
    /\ ir' = Some(HeapLower(<< >>, ast[1]))
    /\ UNCHANGED <<src, tokens, ast, typ, glsl, val, pt, err>>

NextHeap == LowerObjects
SpecHeap == InitHeap /\ [][NextHeap]_vars

(***************************************************************************)
(* Sweeps and blends along paths (specification SpecPath): lower applied   *)
(* to sweep(profile, path) and blend2D(profile1, profile2, path) for the   *)
(* lines and polylines over a few points, which give repeated points,      *)
(* straight continuations, right angles and reversals.                     *)
(***************************************************************************)
PathPoints == {V3(0, 0, 0), V3(1, 0, 0), V3(2, 0, 0), V3(1, 1, 0)}
MaxPathLen == 4
Paths ==
    {Line(a, b) : a \in PathPoints, b \in PathPoints}
      \cup {Call(S_polyline, s) : s \in {t \in SeqsUpTo(PathPoints, MaxPathLen) : Len(t) >= 2}}
PathProfiles == {Circle(Nhalf), Triangle}

InitPath ==
    /\ pc = "path" /\ src = << >> /\ tokens = << >>
    /\ ast \in {Some(a) : a \in Paths}
    /\ typ = "" /\ ir = None /\ glsl = << >> /\ val = None /\ pt = <<0, 0, 0>> /\ err = NoErr

\* ir = lower(call), or its error
LowerCall(call, done) ==
    /\ ast' = Some(call)
    /\ LET r == lower(call)
       IN IF r.ok THEN pc' = done /\ ir' = r.ir /\ err' = err
          ELSE pc' = "lower_failed" /\ ir' = ir /\ err' = r.err
    /\ UNCHANGED <<src, tokens, typ, glsl, val, pt>>

\* lower(sweep(profile, path))
Sweep ==
    /\ pc = "path"
    /\ \E profile \in PathProfiles : LowerCall(Call(S_sweep, <<profile, ast[1]>>), "swept")

\* lower(blend2D(profile1, profile2, path))
Blend ==
    /\ pc = "path"
    /\ \E profile1 \in PathProfiles, profile2 \in PathProfiles :
          LowerCall(Call(S_blend2D, <<profile1, profile2, ast[1]>>), "blended")

NextPath == Sweep \/ Blend
SpecPath == InitPath /\ [][NextPath]_vars

(***************************************************************************)
(* The retry loop of DSL generation (server.py, specification SpecRetry).  *)
(* src is dsl_code, err the exception caught last, typ the status of the   *)
(* response, and val holds the other locals of the loop: retry, messages,  *)
(* the number of calls of chat made, the text the last call returned       *)
(* (None when it raised) and the dict returned.                            *)
(***************************************************************************)
max_retries == 2
WhiteChars == {" ", "\n", "\t"}
RECURSIVE lstrip(_), rstrip(_), AfterNewline(_)
lstrip(s) == IF s # << >> /\ Head(s) \in WhiteChars THEN lstrip(Tail(s)) ELSE s
rstrip(s) ==
    IF s # << >> /\ s[Len(s)] \in WhiteChars THEN rstrip(SubSeq(s, 1, Len(s) - 1)) ELSE s
strip(s) == rstrip(lstrip(s))
\* the character U+0060 (grave accent), which a TLA+ string cannot hold
Grave == "grave"
Fence == <<Grave, Grave, Grave>>
startswith(s, prefix) == Len(s) >= Len(prefix) /\ SubSeq(s, 1, Len(prefix)) = prefix
endswith(s, suffix) ==
    Len(s) >= Len(suffix) /\ SubSeq(s, Len(s) - Len(suffix) + 1, Len(s)) = suffix
\* "\n".join(s.split("\n")[1:])
AfterNewline(s) ==
    IF s = << >> THEN << >> ELSE IF Head(s) = "\n" THEN Tail(s) ELSE AfterNewline(Tail(s))
StripOpening(s) == IF startswith(s, Fence) THEN AfterNewline(s) ELSE s
StripClosing(s) == IF endswith(s, Fence) THEN SubSeq(s, 1, Len(s) - 3) ELSE s
\* the reply without its markdown code fences
StripFences(reply) == strip(StripClosing(StripOpening(strip(reply))))

\* Parser.from_source(dsl_code).parse() and lower(ast): the exception
\* raised, NoErr when there is none
ValidateParsed(r) == IF ~r.ok THEN r.err ELSE lower(r.node[1]).err
ValidateLexed(r) == IF ~r.ok THEN r.err ELSE ValidateParsed(parse(r.val))
Validate(dsl_code) == ValidateLexed(tokenize(dsl_code))

SphereOne == S_sphere \o <<"(", "1", ")">>
\* what chat can return: code, code in fences, code that does not parse,
\* code that does not lower, nothing
Replies ==
    {SphereOne,
     <<" ">> \o SphereOne \o <<"\n">>,
     Fence \o <<"\n">> \o SphereOne \o <<"\n">> \o Fence,
     S_sphere \o <<"(">>,
     S_invalid_func \o <<"(", "1", ")">>,
     << >>}
\* chat returns a text or raises (raise_for_status, a network error)
ChatOutcomes ==
    {[raised |-> FALSE, text |-> r, err |-> NoErr] : r \in Replies}
      \cup {[raised |-> TRUE, text |-> << >>, err |-> Err("HTTPStatusError", "503", 0, 0)]}

Message(role, content) == [role |-> role, content |-> content]
\* f"The DSL failed to compile with this error: {error_msg}. Fix it. ..."
Feedback(error_msg) == Message("user", <<"The DSL failed to compile with this error", error_msg>>)
Locals(retry, messages, calls, reply, result) ==
    [retry |-> retry, messages |-> messages, calls |-> calls, reply |-> reply, result |-> result]

InitRetry ==
    /\ pc = "start" /\ src = << >> /\ tokens = << >> /\ ast = None /\ typ = "" /\ ir = None
    /\ glsl = << >> /\ val = None /\ pt = <<0, 0, 0>> /\ err = NoErr

\* the entry of _generate_dsl_internal: the API key is set or not
Enter ==
    /\ pc = "start"
    /\ \E api_key \in BOOLEAN :
          IF ~api_key
          THEN /\ pc' = "raised" /\ val' = val
               /\ err' = Err("HTTPException", "OPENROUTER_API_KEY not set", 0, 0)
          ELSE /\ pc' = "loop" /\ err' = err
               /\ val' = Some(Locals(0, <<Message("system", "dsl_system_prompt"),
                                          Message("user", "prompt")>>, 0, None, None))
    /\ UNCHANGED <<src, tokens, ast, typ, ir, glsl, pt>>

\* the outcome of one pass of the loop with locals L, dsl_code and the
\* exception exc of the try block (NoErr when it returned)
AttemptEnds(L, dsl_code, exc, calls, reply) ==
    /\ src' = dsl_code
    /\ IF exc = NoErr
       THEN /\ pc' = "returned" /\ err' = err
            /\ val' = Some(Locals(L.retry, L.messages, calls, reply,
                                  Some([code |-> dsl_code, error |-> NoErr, last_code |-> << >>])))
       ELSE IF L.retry < max_retries
       THEN /\ pc' = "loop" /\ err' = exc
            /\ val' = Some(Locals(L.retry + 1,
                                  L.messages \o <<Message("assistant", dsl_code), Feedback(exc)>>,
                                  calls, reply, None))
       ELSE /\ pc' = "returned" /\ err' = exc
            /\ val' = Some(Locals(L.retry, L.messages, calls, reply,
                                  Some([code |-> << >>, error |-> exc, last_code |-> dsl_code])))

\* one pass of the loop: chat, strip, parse and lower, then return or retry
Attempt ==
    /\ pc = "loop"
    /\ \E out \in ChatOutcomes :
          IF out.raised
          THEN AttemptEnds(val[1], src, out.err, val[1].calls + 1, None)
          ELSE AttemptEnds(val[1], StripFences(out.text), Validate(StripFences(out.text)),
                           val[1].calls + 1, Some(out.text))
    /\ UNCHANGED <<tokens, ast, typ, ir, glsl, pt>>

\* generate_dsl_endpoint: 400 with the result when it holds an error
Respond ==
    /\ pc = "returned"
    /\ pc' = "responded"
    /\ typ' = IF val[1].result[1].error # NoErr THEN "400" ELSE "200"
    /\ UNCHANGED <<src, tokens, ast, ir, glsl, val, pt, err>>

NextRetry == Enter \/ Attempt \/ Respond
SpecRetry == InitRetry /\ [][NextRetry]_vars

(***************************************************************************)
(* The interpreter's stack (specification SpecDeep).  parse_expr, lower    *)
(* and replace_var are recursive, and Python raises RecursionError when    *)
(* the stack of frames would grow beyond the recursion limit.  The frames  *)
(* a call needs are counted from the code; the sources are nests of        *)
(* translate, offset and union around sphere(1) and runs of "a(".          *)
(***************************************************************************)
\* sys.getrecursionlimit() less the frames of the caller: 1000 by default,
\* taken small so that the nests below reach it
RecursionLimit == 12
MaxNest == 5
MaxOpen == 10

RecursionError == Err("RecursionError", "maximum recursion depth exceeded", 0, 0)
Greatest(S) == CHOOSE x \in S : \A y \in S : y <= x

\* the calls ( open before token k (0-based)
OpenBefore(toks, k) ==
    Cardinality({j \in 1..k : toks[j].kind = "LPAREN"})
        - Cardinality({j \in 1..k : toks[j].kind = "RPAREN"})
\* parse_expr is entered at token k: the first token, the token after a
\* comma, and the token after ( unless it is )
EntersExpr(toks, k) ==
    \/ k = 0
    \/ toks[k].kind = "COMMA"
    \/ toks[k].kind = "LPAREN" /\ toks[k + 1].kind # "RPAREN"
\* the frames below parse_expr at token k: _peek; _advance and _peek; for
\* a name before (, _expect, _advance and _peek
HelperFrames(toks, k) ==
    IF toks[k + 1].kind = "NUMBER" THEN 2
    ELSE IF toks[k + 1].kind # "IDENT" THEN 1
    ELSE IF toks[k + 2].kind = "LPAREN" THEN 3 ELSE 2
\* the deepest stack of Parser.parse on toks when it stops at token upto:
\* parse, one parse_expr for each open call, and the helpers
ParseFrames(toks, upto) ==
    1 + Greatest({1 + OpenBefore(toks, k) + HelperFrames(toks, k) :
                     k \in {j \in 0..upto : EntersExpr(toks, j)}})

RECURSIVE ReplaceFrames(_), LowerFrames(_)
\* replace_var: itself, then IR.__init__ or the list comprehension and the
\* deepest call for an argument
ReplaceFrames(node) ==
    IF node.op = "var" THEN 1
    ELSE 1 + Greatest({1} \cup {1 + ReplaceFrames(node.args[k]) : k \in 1..Len(node.args)})

\* lower: itself, then the deepest of the calls for its arguments, of a
\* constructor and its IR.__init__, and for translate of replace_var
LowerFrames(expr) ==
    IF expr.tag = "Number" THEN 3
    ELSE 1 + Greatest({2} \cup {LowerFrames(expr.args[k]) : k \in 1..Len(expr.args)}
                          \cup (IF expr.tag = "Call" /\ expr.name = S_translate
                                THEN {ReplaceFrames(lower(expr.args[1]).ir[1])} ELSE {}))

\* the second argument of a call of name around a field
NestTail(name) ==
    IF name = S_translate THEN V3(1, 0, 0) ELSE IF name = S_offset THEN N1 ELSE Sphere(N1)
RECURSIVE NestOf(_, _), Opening(_)
\* names[k](names[k+1](... sphere(1) ...))
NestOf(names, k) ==
    IF k > Len(names) THEN Sphere(N1)
    ELSE Call(names[k], <<NestOf(names, k + 1), NestTail(names[k])>>)
\* "a(" n times
Opening(n) == IF n = 0 THEN << >> ELSE <<"a", "(">> \o Opening(n - 1)

DeepSources ==
    {unparse(NestOf(names, 1)) : names \in SeqsUpTo({S_translate, S_offset, S_union}, MaxNest)}
      \cup {Opening(n) : n \in 1..MaxOpen}

InitDeep == pc = "source" /\ src \in DeepSources /\ Blank

\* Parser.from_source(src).parse() on a stack of RecursionLimit frames
ParseOnStack(r) ==
    IF ParseFrames(tokens', r.i) > RecursionLimit
    THEN pc' = "parse_failed" /\ ast' = ast /\ err' = RecursionError
    ELSE IF r.ok THEN pc' = "parsed" /\ ast' = r.node /\ err' = err
    ELSE pc' = "parse_failed" /\ ast' = ast /\ err' = r.err

ParseSource ==
    /\ pc = "source"
    /\ LET t == tokenize(src)
       IN IF t.ok THEN tokens' = t.val /\ ParseOnStack(parse(t.val))
          ELSE pc' = "lex_failed" /\ tokens' = tokens /\ ast' = ast /\ err' = t.err
    /\ UNCHANGED <<src, typ, ir, glsl, val, pt>>

\* lower(ast) on a stack of RecursionLimit frames
LowerParsed ==
    /\ pc = "parsed"
    /\ LET r == lower(ast[1])
       IN IF r.ok /\ LowerFrames(ast[1]) > RecursionLimit
          THEN pc' = "lower_failed" /\ ir' = ir /\ err' = RecursionError
          ELSE IF r.ok THEN pc' = "lowered" /\ ir' = r.ir /\ err' = err
          ELSE pc' = "lower_failed" /\ ir' = ir /\ err' = r.err
    /\ UNCHANGED <<src, tokens, ast, typ, glsl, val, pt>>

NextDeep == ParseSource \/ LowerParsed
SpecDeep == InitDeep /\ [][NextDeep]_vars

(***************************************************************************)
(* Claims about the pipeline (specification Spec).                         *)
(***************************************************************************)
FailedStages == {"lex_failed", "parse_failed", "type_failed", "lower_failed", "emit_failed", "eval_failed"}

\* the number of fragments of text equal to frag
CountOf(text, frag) == Cardinality({k \in 1..Len(text) : text[k] = frag})

WellTypedField(node) == type_of(node).ok /\ type_of(node).ty = FIELD

\* C1: a well-typed source of type field that reaches the emitter is emitted;
\* the text begins with "float sdf(vec3 p)" and holds exactly one "return".
C1_WellTypedFieldEmits ==
    (pc \in {"emitted", "emit_failed"} /\ WellTypedField(ast[1]))
        => /\ pc = "emitted"
           /\ glsl[1] = "float sdf(vec3 p)"
           /\ CountOf(glsl, "return") = 1

\* C2: no IR tree that lower produces makes eval_ir raise IREvalError: every
\* op tag lower can place in a tree is interpreted by eval_ir.
C2_NoIREvalError ==
    pc = "eval_failed" => err.kind # "IREvalError"

\* C3: the compile pipeline fails only with the error of the stage that
\* detects the violation: LexerError from the lexer, ParserError from the
\* parser, a type error or ValueError from lowering; the emitter never fails.
C3_DocumentedErrorKinds ==
    /\ pc = "lex_failed" => err.kind = "LexerError"
    /\ pc = "parse_failed" => err.kind = "ParserError"
    /\ pc = "lower_failed" => err.kind \in {"TypeError", "ValueError"}
    /\ pc # "emit_failed"

\* the names of the signature table
TableNames ==
    {S_vec2, S_vec3, S_sphere, S_cylinder, S_box, S_hex_nut, S_circle, S_polygon, S_line,
     S_polyline, S_helix, S_union, S_difference, S_rotate, S_translate, S_offset, S_extrude,
     S_sweep, S_blend2D}

RECURSIVE CallsUnknown(_)
CallsUnknown(node) ==
    \/ node.tag = "Call" /\ node.name \notin TableNames
    \/ \E k \in 1..Len(node.args) : CallsUnknown(node.args[k])

\* C4: a source that calls a name outside the signature table never reaches
\* GLSL, and the error that rejects it is a type error.
C4_UnknownNameRejected ==
    (ast # None /\ CallsUnknown(ast[1]))
        => /\ pc # "emitted"
           /\ pc \in FailedStages => err.kind = "TypeError"

(***************************************************************************)
(* Claims about the typechecker (specification SpecType).                  *)
(***************************************************************************)
HasType(node, types) == type_of(node).ok /\ type_of(node).ty \in types

\* C5: type_of gives helix(f32, f32, f32) the type path and
\* blend2D(profile, profile, path) the type field.
C5_HelixAndBlend2DTyped ==
    pc \in {"typed", "type_failed"} =>
        LET a == ast[1]
            n == Len(a.args)
        IN /\ ( /\ a.tag = "Call" /\ a.name = S_helix /\ n = 3
                /\ \A k \in 1..n : HasType(a.args[k], {F32}) )
                => pc = "typed" /\ typ = PATH
           /\ ( /\ a.tag = "Call" /\ a.name = S_blend2D /\ n = 3
                /\ HasType(a.args[1], {POLY2D, CIRCLE2D})
                /\ HasType(a.args[2], {POLY2D, CIRCLE2D})
                /\ HasType(a.args[3], {PATH}) )
                => pc = "typed" /\ typ = FIELD

\* The signature table of the language: for each name the types accepted at
\* each position and the result, or for a variadic name the least number of
\* arguments, the type of each, and the result.
Profile == {POLY2D, CIRCLE2D}
FixedTable ==
    (S_sphere :> [params |-> <<{F32}>>, ret |-> FIELD]) @@
    (S_cylinder :> [params |-> <<{F32}, {F32}>>, ret |-> FIELD]) @@
    (S_box :> [params |-> <<{VEC3}>>, ret |-> FIELD]) @@
    (S_hex_nut :> [params |-> <<{F32}, {F32}, {F32}>>, ret |-> FIELD]) @@
    (S_circle :> [params |-> <<{F32}>>, ret |-> CIRCLE2D]) @@
    (S_line :> [params |-> <<{VEC3}, {VEC3}>>, ret |-> PATH]) @@
    (S_difference :> [params |-> <<{FIELD}, {FIELD}>>, ret |-> FIELD]) @@
    (S_rotate :> [params |-> <<{FIELD}, {VEC3}>>, ret |-> FIELD]) @@
    (S_translate :> [params |-> <<{FIELD}, {VEC3}>>, ret |-> FIELD]) @@
    (S_offset :> [params |-> <<{FIELD}, {F32}>>, ret |-> FIELD]) @@
    (S_extrude :> [params |-> <<Profile, {F32}>>, ret |-> FIELD]) @@
    (S_sweep :> [params |-> <<Profile, {PATH}>>, ret |-> FIELD])
VariadicTable ==
    (S_polygon :> [least |-> 3, each |-> VEC2, ret |-> POLY2D]) @@
    (S_polyline :> [least |-> 2, each |-> VEC3, ret |-> PATH]) @@
    (S_union :> [least |-> 2, each |-> FIELD, ret |-> FIELD])

\* the call matches the table in arity and argument types
TableAccepts(a) ==
    LET n == Len(a.args)
    IN IF a.name \in DOMAIN FixedTable
       THEN LET params == FixedTable[a.name].params
            IN n = Len(params) /\ \A k \in 1..n : HasType(a.args[k], params[k])
       ELSE LET row == VariadicTable[a.name]
            IN n >= row.least /\ \A k \in 1..n : HasType(a.args[k], {row.each})
TableResult(a) ==
    IF a.name \in DOMAIN FixedTable THEN FixedTable[a.name].ret ELSE VariadicTable[a.name].ret

\* C6: for a call of a name of the table, type_of returns the table's result
\* type exactly when arity and argument types match, and raises TypeError
\* otherwise.
C6_SignatureTable ==
    ( /\ pc \in {"typed", "type_failed"} /\ ast[1].tag = "Call"
      /\ ast[1].name \in DOMAIN FixedTable \cup DOMAIN VariadicTable )
        => IF TableAccepts(ast[1])
           THEN pc = "typed" /\ typ = TableResult(ast[1])
           ELSE pc = "type_failed" /\ err.kind = "TypeError"

\* a variadic call with three arguments has been accepted
C6_Witness ==
    /\ pc = "typed" /\ typ = FIELD
    /\ ast = Some(Call(S_union, <<Sphere(N1), Sphere(N2), Sphere(N3)>>))

\* the messages type_of raises for an argument or component of the wrong type
ArgTypeMessages ==
    {"arg expects, got", "arg expects", "vec3 components must be f32",
     "vec2 components must be f32"}

\* C7: an error raised for an argument of the wrong type identifies the
\* argument index, the expected type tag and the actual type tag.
C7_ArgErrorsIdentify ==
    (pc = "type_failed" /\ err.msg \in ArgTypeMessages)
        => err.idx >= 0 /\ err.expected # "" /\ err.actual # ""

(***************************************************************************)
(* Claims about the front end.                                             *)
(***************************************************************************)
\* C8: parsing the printed text of a parsed AST gives the same AST.
C8_RoundTrip ==
    pc = "parsed" =>
        Bind([text \in {unparse(ast[1])} |->
        Bind([t \in {tokenize(text)} |->
           t.ok /\ Bind([r \in {parse(t.val)} |-> r.ok /\ r.node = ast])])])

\* a source with a redundant zero has been parsed; its printed text differs
C8_Witness ==
    /\ pc = "parsed"
    /\ src = S_sphere \o <<"(", "1", ".", "0", ")">>
    /\ unparse(ast[1]) = S_sphere \o <<"(", "1", ")">>

\* The grammar  expr := NUMBER | IDENT '(' [expr (',' expr)*] ')'  as the
\* set of ASTs that toks[lo..hi] derives: vec3 takes exactly three arguments
\* and becomes a Vec3, vec2 exactly two and becomes a Vec2, any other
\* identifier becomes a Call with its arguments in source order.
NodeArityOk(name, as) ==
    /\ name = S_vec3 => Len(as) = 3
    /\ name = S_vec2 => Len(as) = 2
NodeOf(name, as) ==
    IF name = S_vec3 THEN Vec3(as[1], as[2], as[3])
    ELSE IF name = S_vec2 THEN Vec2(as[1], as[2])
    ELSE Call(name, as)

\* every expr has matching parentheses, so only such spans are tried as
\* arguments
Net(toks, lo, j) ==
    Cardinality({k \in lo..j : toks[k].kind = "LPAREN"})
        - Cardinality({k \in lo..j : toks[k].kind = "RPAREN"})
Balanced(toks, lo, hi) ==
    /\ Net(toks, lo, hi) = 0
    /\ \A j \in lo..hi : Net(toks, lo, j) >= 0

RECURSIVE Exprs(_, _, _), ArgLists(_, _, _)
Exprs(toks, lo, hi) ==
    IF lo = hi
    THEN IF toks[lo].kind = "NUMBER" THEN {Number(toks[lo].value[1])} ELSE {}
    ELSE IF /\ hi >= lo + 2 /\ toks[lo].kind = "IDENT"
            /\ toks[lo + 1].kind = "LPAREN" /\ toks[hi].kind = "RPAREN"
    THEN LET lists == IF hi = lo + 2 THEN {<< >>} ELSE ArgLists(toks, lo + 2, hi - 1)
         IN {NodeOf(toks[lo].lexeme, as) : as \in {l \in lists : NodeArityOk(toks[lo].lexeme, l)}}
    ELSE {}
ArgLists(toks, lo, hi) ==
    UNION { LET rest == IF m = hi THEN {<< >>}
                        ELSE IF m + 2 <= hi /\ toks[m + 1].kind = "COMMA"
                             THEN ArgLists(toks, m + 2, hi)
                             ELSE {}
            IN {<<e>> \o r : e \in Exprs(toks, lo, m), r \in rest}
          : m \in {j \in lo..hi : Balanced(toks, lo, j)} }

\* C9: Parser.parse accepts exactly the token streams that are one expr of
\* the grammar followed by EOF, returns the AST the grammar derives, and
\* raises ParserError on every other stream.
C9_ParserAcceptsGrammar ==
    pc \in {"parsed", "parse_failed"} =>
        LET n == Len(tokens)
            derived == IF n >= 2 /\ tokens[n].kind = "EOF" THEN Exprs(tokens, 1, n - 1) ELSE {}
        IN IF derived # {}
           THEN pc = "parsed" /\ ast \in {Some(d) : d \in derived}
           ELSE pc = "parse_failed" /\ err.kind = "ParserError"

\* a call with a trailing comma has been rejected
C9_Witness ==
    /\ pc = "parse_failed"
    /\ [k \in 1..Len(tokens) |-> tokens[k].kind]
         = <<"IDENT", "LPAREN", "NUMBER", "COMMA", "RPAREN", "EOF">>

AllDigits(q) == \A k \in 1..Len(q) : IsDigit(q[k])
\* lex is whole digits, or whole '.' frac with both all digits
SplitsAt(lex, d) ==
    /\ lex[d] = "."
    /\ AllDigits(SubSeq(lex, 1, d - 1))
    /\ AllDigits(SubSeq(lex, d + 1, Len(lex)))
\* digits, digits '.' digits, or '.' digits
DigitsDotDigits(lex) ==
    \/ lex # << >> /\ AllDigits(lex)
    \/ \E d \in 1..Len(lex) : SplitsAt(lex, d) /\ d < Len(lex)
\* digits, digits '.' with zero or more digits, or '.' digits
DigitsDotMaybeDigits(lex) ==
    \/ lex # << >> /\ AllDigits(lex)
    \/ \E d \in 1..Len(lex) : SplitsAt(lex, d) /\ Len(lex) > 1
\* the decimal number a lexeme denotes
LexemeValue(lex) ==
    IF AllDigits(lex) THEN Dec(DigitsToInt(lex), 0)
    ELSE LET d == CHOOSE k \in 1..Len(lex) : lex[k] = "."
             whole == SubSeq(lex, 1, d - 1)
             frac == SubSeq(lex, d + 1, Len(lex))
         IN Dec(DigitsToInt(whole) * Pow10(Len(frac)) + DigitsToInt(frac), Len(frac))

Newlines(s, k) == {j \in 1..(k - 1) : s[j] = "\n"}
LineAt(s, k) == 1 + Cardinality(Newlines(s, k))
ColAt(s, k) ==
    IF Newlines(s, k) = {} THEN k
    ELSE k - (CHOOSE j \in Newlines(s, k) : \A m \in Newlines(s, k) : m <= j)

\* index k lies in a comment: a '#' at or before it on the same line
InComment(s, k) == \E j \in 1..k : s[j] = "#" /\ \A m \in j..k : s[m] # "\n"

\* the character at k is whitespace, a digit, a '.' before a digit, a letter,
\* '_', '(', ')' or ','
Startable(s, k) ==
    \/ s[k] \in {" ", "\t", "\r", "\n", "_", "(", ")", ","}
    \/ IsDigit(s[k]) \/ IsAlpha(s[k])
    \/ (s[k] = "." /\ k < Len(s) /\ IsDigit(s[k + 1]))

\* the '.' at k is the first dot of a number lexeme: it follows a run of
\* digits that starts a token
ContinuesNumber(s, k) ==
    /\ s[k] = "."
    /\ \E j \in 1..(k - 1) :
          /\ \A m \in j..(k - 1) : IsDigit(s[m])
          /\ (j = 1 \/ ~(IsAlnum(s[j - 1]) \/ s[j - 1] \in {"_", "."}))

Unstartable(s) == {k \in 1..Len(s) : ~InComment(s, k) /\ ~Startable(s, k)}
UnstartableToken(s) == {k \in Unstartable(s) : ~ContinuesNumber(s, k)}

\* the least element of a non-empty set of indices
Least(S) == CHOOSE k \in S : \A j \in S : k <= j

\* token t of s is stored with the line and column of its first character
\* (of the end of the text for EOF)
TokenPlaced(s, t) ==
    \E k \in 1..(Len(s) + 1) :
        /\ IF t.kind = "EOF" THEN k = Len(s) + 1
           ELSE /\ k + Len(t.lexeme) - 1 <= Len(s)
                /\ SubSeq(s, k, k + Len(t.lexeme) - 1) = t.lexeme
        /\ t.line = LineAt(s, k) /\ t.col = ColAt(s, k)

\* tokenize has run on src and failed at the first index of bad, or has
\* succeeded with bad empty and every token placed
LexedAt(bad) ==
    /\ pc = "lex_failed" <=> bad # {}
    /\ pc = "lex_failed" =>
          /\ err.kind = "LexerError"
          /\ err.line = LineAt(src, Least(bad)) /\ err.col = ColAt(src, Least(bad))
    /\ \A i \in 1..Len(tokens) : TokenPlaced(src, tokens[i])

FieldAt(node, p) ==
    IF ~lower(node).ok THEN VFail(lower(node).err)
    ELSE IF lower(node).ir = None THEN VFail(Err("AttributeError", "NoneType", 0, 0))
    ELSE eval_ir(lower(node).ir[1], p)

IsCallOf(node, name, n) == node.tag = "Call" /\ node.name = name /\ Len(node.args) = n
IsConstVec3(node) == node.tag = "Vec3" /\ \A k \in 1..3 : node.args[k].tag = "Number"
VecOf(node) == [k \in 1..3 |-> FxOf(node.args[k].value)]
Evaluating == pc \in {"evaluated", "eval_failed"}
\* the program is a call of name on n arguments that typechecks as a field
IsFieldCall(name, n) == IsCallOf(ast[1], name, n) /\ WellTypedField(ast[1])
Origin == <<0, 0, 0>>

\* the evaluation of the program ends as r does
EndsAs(r) == (pc = "evaluated" <=> r.ok) /\ (pc = "evaluated" => val[1] = r)

\* C12: translate(g, v) evaluated at pt is g evaluated at pt - v, for every
\* g, nested transforms included; translate(sphere(1), vec3(1,0,0)) at
\* (1,0,0) is -1.
C12_TranslationLaw ==
    (Evaluating /\ IsFieldCall(S_translate, 2) /\ IsConstVec3(ast[1].args[2]))
        => /\ EndsAs(FieldAt(ast[1].args[1],
                             [k \in 1..3 |-> pt[k] - VecOf(ast[1].args[2])[k]]))
           /\ (ast[1] = Call(S_translate, <<Sphere(N1), V3(1, 0, 0)>>) /\ pt = <<Fx(1), 0, 0>>)
                 => (pc = "evaluated" /\ val[1].s = -Fx(1))

\* a translate of a translate has been evaluated away from the origin
C12_Witness ==
    /\ pc = "evaluated" /\ pt = <<Fx(1), 0, 0>>
    /\ IsCallOf(ast[1], S_translate, 2) /\ IsCallOf(ast[1].args[1], S_translate, 2)
    /\ val[1].s # FieldAt(ast[1].args[1], pt).s

\* C13: rotate(g, vec3(0,0,0)) evaluates at every point as g does.
C13_RotateZeroIdentity ==
    (Evaluating /\ IsFieldCall(S_rotate, 2) /\ ast[1].args[2] = V3(0, 0, 0))
        => EndsAs(FieldAt(ast[1].args[1], pt))

\* C14: difference(a, b) evaluates to max(a(p), -b(p)); difference(a, a) is
\* never negative; difference(sphere(1), sphere(0.5)) at the origin is 0.5.
C14_Difference ==
    (Evaluating /\ IsFieldCall(S_difference, 2))
        => LET a == FieldAt(ast[1].args[1], pt)
               b == FieldAt(ast[1].args[2], pt)
           IN /\ pc = "evaluated" <=> (a.ok /\ b.ok)
              /\ pc = "evaluated" =>
                    /\ val[1].s = Max2(a.s, -b.s)
                    /\ ast[1].args[1] = ast[1].args[2] => val[1].s >= 0
                    /\ (ast[1].args = <<Sphere(N1), Sphere(Nhalf)>> /\ pt = Origin)
                          => val[1].s = FxOf(Dec(5, 1))

\* difference(sphere(1), sphere(0.5)) has been evaluated at the origin
C14_Witness ==
    /\ pc = "evaluated" /\ pt = Origin
    /\ ast = Some(Call(S_difference, <<Sphere(N1), Sphere(Nhalf)>>))

\* min(...min(min(a1, a2), a3)..., an) over the first n of the trees irs
RECURSIVE MinTree(_, _)
MinTree(irs, n) ==
    IF n = 1 THEN irs[1]
    ELSE [op |-> "min", args |-> <<MinTree(irs, n - 1), irs[n]>>, type |-> "f32", value |-> None]

\* the least of the scalars of a non-empty sequence of values
LeastOf(vs) == CHOOSE x \in {vs[k].s : k \in 1..Len(vs)} : \A k \in 1..Len(vs) : x <= vs[k].s

\* C15: union(a1, ..., an), n >= 2, lowers to the left-associative fold of
\* min and evaluates to the minimum of the ai; union(a, a) evaluates as a;
\* union(sphere(1), sphere(2), sphere(3)) at the origin is -3.
C15_UnionFold ==
    (ir # None /\ IsFieldCall(S_union, Len(ast[1].args)))
        => LET n == Len(ast[1].args)
               vs == [k \in 1..n |-> FieldAt(ast[1].args[k], pt)]
           IN /\ ir[1] = MinTree([k \in 1..n |-> lower(ast[1].args[k]).ir[1]], n)
              /\ Evaluating =>
                    /\ pc = "evaluated" <=> \A k \in 1..n : vs[k].ok
                    /\ pc = "evaluated" =>
                          /\ val[1].s = LeastOf(vs)
                          /\ (n = 2 /\ ast[1].args[1] = ast[1].args[2]) => val[1] = vs[1]
                          /\ (ast[1].args = <<Sphere(N1), Sphere(N2), Sphere(N3)>> /\ pt = Origin)
                                => val[1].s = -Fx(3)

\* the union of three spheres has been evaluated at the origin
C15_Witness ==
    /\ pc = "evaluated" /\ pt = Origin
    /\ ast = Some(Call(S_union, <<Sphere(N1), Sphere(N2), Sphere(N3)>>))
    /\ val[1].s = -Fx(3)

\* length((max(d_r, 0), max(d_y, 0), 0)) + min(max(d_r, d_y), 0) with
\* d_y = |p_y| - h and d_r = length((p_x, 0, p_z)) - r
CylinderAt(r, h, p) ==
    LET d_y == Abs(p[2]) - h
        d_r == FxSqrt(FxMul(p[1], p[1]) + FxMul(p[3], p[3])) - r
    IN FxSqrt(FxMul(Max2(d_r, 0), Max2(d_r, 0)) + FxMul(Max2(d_y, 0), Max2(d_y, 0)))
         + Min2(Max2(d_r, d_y), 0)

\* C16: cylinder(r, h) evaluates at p to the capped-cylinder distance;
\* cylinder(1, 0.5) is -0.5 at (0,0,0), 0.5 at (0,1,0) and 0 at (1,0,0).
C16_Cylinder ==
    (Evaluating /\ IsFieldCall(S_cylinder, 2))
        => /\ pc = "evaluated"
           /\ val[1].s = CylinderAt(FxOf(ast[1].args[1].value), FxOf(ast[1].args[2].value), pt)
           /\ ast[1].args = <<N1, Nhalf>> =>
                 /\ pt = Origin => val[1].s = -FxOf(Dec(5, 1))
                 /\ pt = <<0, Fx(1), 0>> => val[1].s = FxOf(Dec(5, 1))
                 /\ pt = <<Fx(1), 0, 0>> => val[1].s = 0

\* cylinder(1, 0.5) has been evaluated above its cap
C16_Witness ==
    /\ pc = "evaluated" /\ pt = <<0, Fx(1), 0>>
    /\ ast = Some(Call(S_cylinder, <<N1, Nhalf>>))
    /\ val[1].s = FxOf(Dec(5, 1))

(***************************************************************************)
(* Claims about polygon admission (specification SpecGeom).                *)
(***************************************************************************)
\* the vertices written in a polygon call, and vertex k counted from 0
\* around the polygon
Verts(node) ==
    [k \in 1..Len(node.args) |->
        <<FxOf(node.args[k].args[1].value), FxOf(node.args[k].args[2].value)>>]
VertAt(poly, k) == poly[(k % Len(poly)) + 1]

CrossOf(u, v) == u[1] * v[2] - u[2] * v[1]
Minus(a, b) == <<a[1] - b[1], a[2] - b[2]>>

\* q lies in the bounding box of a and b
InBox(a, b, q) ==
    /\ Min2(a[1], b[1]) <= q[1] /\ q[1] <= Max2(a[1], b[1])
    /\ Min2(a[2], b[2]) <= q[2] /\ q[2] <= Max2(a[2], b[2])

\* the closed segments ab and cd share a point: for directions that are not
\* parallel, the parameters of the crossing point of the two lines both lie
\* in [0, 1]; otherwise the four points are collinear and an end of one
\* segment lies on the other
Intersects(a, b, c, d) ==
    LET den == CrossOf(Minus(b, a), Minus(d, c))
        tn == CrossOf(Minus(c, a), Minus(d, c))
        un == CrossOf(Minus(c, a), Minus(b, a))
    IN IF den # 0
       THEN /\ 0 <= tn * Sign(den) /\ tn * Sign(den) <= Abs(den)
            /\ 0 <= un * Sign(den) /\ un * Sign(den) <= Abs(den)
       ELSE /\ CrossOf(Minus(b, a), Minus(c, a)) = 0 /\ CrossOf(Minus(b, a), Minus(d, a)) = 0
            /\ CrossOf(Minus(d, c), Minus(a, c)) = 0 /\ CrossOf(Minus(d, c), Minus(b, c)) = 0
            /\ (InBox(a, b, c) \/ InBox(a, b, d) \/ InBox(c, d, a) \/ InBox(c, d, b))

\* some pair of non-adjacent edges intersects
SelfIntersecting(poly) ==
    \E i \in 0..(Len(poly) - 1), j \in 0..(Len(poly) - 1) :
        /\ i < j /\ j - i > 1 /\ ~(i = 0 /\ j = Len(poly) - 1)
        /\ Intersects(VertAt(poly, i), VertAt(poly, i + 1), VertAt(poly, j), VertAt(poly, j + 1))

\* the cross product of the edges meeting at vertex i + 1
TurnAt(poly, i) ==
    CrossOf(Minus(VertAt(poly, i + 1), VertAt(poly, i)),
            Minus(VertAt(poly, i + 2), VertAt(poly, i + 1)))

\* two non-zero cross products of consecutive edges disagree in sign
TurnsDisagree(poly) ==
    \E i \in 0..(Len(poly) - 1), j \in 0..(Len(poly) - 1) :
        TurnAt(poly, i) > 0 /\ TurnAt(poly, j) < 0

Decided == pc \in {"admitted", "rejected", "lowered", "lower_failed"}
Rejected(msg) == pc = "rejected" /\ err.kind = "ValueError" /\ err.msg = msg

\* C17: a polygon with two intersecting non-adjacent edges is rejected as
\* self-intersecting, whether convex or not; a simple polygon whose turns
\* disagree in sign is rejected as not convex; every other polygon is admitted.
C17_PolygonAdmission ==
    Decided =>
        CASE SelfIntersecting(Verts(ast[1])) -> Rejected("polygon is self-intersecting")
          [] ~SelfIntersecting(Verts(ast[1])) /\ TurnsDisagree(Verts(ast[1])) ->
                Rejected("polygon must be convex")
          [] OTHER -> pc # "rejected"

\* a polygon that is both self-intersecting and not convex has been rejected
C17_Witness ==
    /\ Rejected("polygon is self-intersecting")
    /\ TurnsDisagree(Verts(ast[1]))
    /\ Len(ast[1].args) = 4

\* twice the signed area of a polygon
RECURSIVE SignedArea2(_, _)
SignedArea2(poly, n) ==
    IF n = 0 THEN 0
    ELSE SignedArea2(poly, n - 1) + CrossOf(VertAt(poly, n - 1), VertAt(poly, n))

\* the operands of the nested max at the root of a tree
RECURSIVE MaxOperands(_)
MaxOperands(node) ==
    IF node.op = "max" THEN MaxOperands(node.args[1]) \cup MaxOperands(node.args[2])
    ELSE {node}

\* the polygon call with its vertices in the opposite order
Opposite(node) == Call(S_polygon, [k \in 1..Len(node.args) |-> node.args[Len(node.args) + 1 - k]])

\* C18: an admitted polygon is returned unchanged when its signed area is not
\* negative and reversed otherwise, so its signed area is never negative; the
\* extrusion of a clockwise polygon is the maximum of the same terms as the
\* extrusion of the polygon written counter-clockwise, and the clockwise
\* square extrudes without error.
C18_EnsureCcw ==
    /\ (Decided /\ pc # "rejected") =>
          /\ val[1] = IF SignedArea2(Verts(ast[1]), Len(ast[1].args)) >= 0
                      THEN Verts(ast[1])
                      ELSE [k \in 1..Len(ast[1].args) |->
                               Verts(ast[1])[Len(ast[1].args) + 1 - k]]
          /\ SignedArea2(val[1], Len(val[1])) >= 0
    /\ (pc = "lowered" /\ SignedArea2(Verts(ast[1]), Len(ast[1].args)) < 0) =>
          MaxOperands(ir[1])
             = MaxOperands(lower(Call(S_extrude, <<Opposite(ast[1]), N1>>)).ir[1])
    /\ (Decided /\ ast[1] = SquareCW) => pc \in {"admitted", "lowered"}
    /\ (pc = "lowered" /\ ast[1] = SquareCW) =>
          MaxOperands(ir[1]) = MaxOperands(lower(Call(S_extrude, <<SquareCCW, N1>>)).ir[1])

\* the clockwise square has been extruded
C18_Witness ==
    /\ pc = "lowered" /\ ast[1] = SquareCW
    /\ val[1] # Verts(SquareCW) /\ val[1] # Verts(SquareCCW)
    /\ ir[1] # lower(Call(S_extrude, <<SquareCCW, N1>>)).ir[1]

(***************************************************************************)
(* Claims about blend2D programs and shape descriptors (specification      *)
(* Spec).                                                                  *)
(***************************************************************************)
\* blend2D programs of the tests and examples: a circle blended into a
\* square along a line, the square in the first quadrant or centred
BlendTests ==
    {unparse(Call(S_blend2D, <<Circle(N1), SquareCCW, LineY>>)), BlendCentredSquare}

\* C19: a blend2D program of the tests and examples is tokenized, parsed,
\* lowered, emitted and evaluated without any stage failing.
C19_Blend2DRuns ==
    src \in BlendTests =>
        pc \notin {"lex_failed", "parse_failed", "lower_failed", "emit_failed", "eval_failed"}
\* the arguments of a call that lower lowers as fields
FieldSlots(node) ==
    CASE node.name = S_union -> 1..Len(node.args)
      [] node.name = S_difference -> 1..Min2(2, Len(node.args))
      [] node.name \in {S_rotate, S_translate, S_offset} -> 1..Min2(1, Len(node.args))
      [] OTHER -> {}

\* a polygon, circle, line, polyline or helix call stands where a field is
\* expected: at the root, or as a field argument of a chain of union,
\* difference, rotate, translate and offset calls from the root
RECURSIVE DescriptorAsField(_)
DescriptorAsField(node) ==
    /\ node.tag = "Call"
    /\ \/ node.name \in {S_polygon, S_circle, S_line, S_polyline, S_helix}
       \/ \E k \in FieldSlots(node) : DescriptorAsField(node.args[k])

\* C20: lower returns no IR for a source in which a shape descriptor stands
\* where a field is expected; it raises an error instead.
C20_DescriptorsNotFields ==
    (ast # None /\ DescriptorAsField(ast[1]))
        => /\ ir = None
           /\ pc \in {"parsed", "typed", "type_failed", "lower_failed"}
           /\ pc = "lower_failed" => err.kind = "ValueError"

\* lowering has failed on a helix given to offset, and on a circle nested
\* two calls deep
C20_Witness ==
    /\ pc = "lower_failed" /\ ast # None
    /\ \/ IsCallOf(ast[1], S_offset, 2) /\ ast[1].args[1].tag = "Call"
            /\ ast[1].args[1].name = S_helix
       \/ ast[1] = Call(S_union, <<Sphere(N1), Call(S_translate, <<Circle(N1), V3(1, 0, 0)>>)>>)

(***************************************************************************)
(* Claims about the shape of the IR (specification Spec).                  *)
(***************************************************************************)
\* the signature of an op: the types of its arguments and of its result
ArgTypes(op) ==
    CASE op \in {"const", "var"} -> << >>
      [] op = "vec3" -> <<"f32", "f32", "f32">>
      [] op \in {"neg", "abs", "sin", "cos", "floor"} -> <<"f32">>
      [] op \in {"add", "sub", "mul", "min", "max", "atan2"} -> <<"f32", "f32">>
      [] op \in {"length", "vec_x", "vec_y", "vec_z", "vec_abs"} -> <<"vec3">>
      [] op \in {"vec_add", "vec_sub", "vec_max"} -> <<"vec3", "vec3">>
ResultType(op) ==
    IF op \in {"var", "vec3", "vec_abs", "vec_add", "vec_sub", "vec_max"} THEN "vec3" ELSE "f32"
Ops ==
    {"const", "var", "vec3", "neg", "abs", "sin", "cos", "floor", "add", "sub", "mul", "min",
     "max", "atan2", "length", "vec_x", "vec_y", "vec_z", "vec_abs", "vec_add", "vec_sub",
     "vec_max"}

\* every node of the tree matches the signature of its op; a const, and no
\* other node, holds a value
RECURSIVE WellFormed(_)
WellFormed(node) ==
    /\ node.op \in Ops
    /\ node.type = ResultType(node.op)
    /\ (node.op = "const") = (node.value # None)
    /\ Len(node.args) = Len(ArgTypes(node.op))
    /\ \A k \in 1..Len(node.args) :
          node.args[k].type = ArgTypes(node.op)[k] /\ WellFormed(node.args[k])

\* the tree holds a var node
RECURSIVE HasVar(_)
HasVar(node) == node.op = "var" \/ \E k \in 1..Len(node.args) : HasVar(node.args[k])

\* C21: the IR lowered from a well-typed field source has a root of type
\* f32, matches the op signatures at every node, and reads the point p,
\* also under rotate and translate.
C21_WellFormedIR ==
    (ir # None /\ WellTypedField(ast[1]))
        => ir[1].type = "f32" /\ WellFormed(ir[1]) /\ HasVar(ir[1])

\* a rotated and a translated field have been lowered
C21_Witness ==
    /\ pc = "lowered" /\ WellTypedField(ast[1])
    /\ ast[1].name \in {S_rotate, S_translate}
    /\ HasVar(ir[1])
\* m is n with every var node replaced by r: the other nodes keep op,
\* type, value and the number and order of their arguments
RECURSIVE SameButVar(_, _, _)
SameButVar(n, m, r) ==
    IF n.op = "var" THEN m = r
    ELSE /\ m.op = n.op /\ m.type = n.type /\ m.value = n.value
         /\ Len(m.args) = Len(n.args)
         /\ \A k \in 1..Len(n.args) : SameButVar(n.args[k], m.args[k], r)

\* the point lower substitutes for p in translate(g, v)
Shifted(v) == [op |-> "vec_sub", args |-> <<ir_var("p"), lower(v).ir[1]>>, type |-> "vec3",
               value |-> None]

RECURSIVE Reach(_, _)
Reach(H, id) == {id} \cup UNION {Reach(H, H[id].args[k]) : k \in 1..Len(H[id].args)}

\* the argument places of the objects reachable from the root
ArgPlaces(R) == {<<n, k>> : n \in Reach(R.h, R.id), k \in 1..3} \cap
                {<<n, k>> \in (1..Len(R.h)) \X (1..3) : k <= Len(R.h[n].args)}

\* no object fills two argument places
IsTree(R) ==
    \A s \in ArgPlaces(R), t \in ArgPlaces(R) :
        s # t => R.h[s[1]].args[s[2]] # R.h[t[1]].args[t[2]]

\* the tree of ops an object unfolds to
RECURSIVE Unfolded(_, _)
Unfolded(H, id) ==
    [op |-> H[id].op, args |-> [k \in 1..Len(H[id].args) |-> Unfolded(H, H[id].args[k])]]
RECURSIVE OpsOf(_)
OpsOf(node) == [op |-> node.op, args |-> [k \in 1..Len(node.args) |-> OpsOf(node.args[k])]]

\* the objects unfold to the tree of values that lower returns
HeapUnfoldsToLower ==
    pc = "lowered" => Unfolded(ir[1].h, ir[1].id) = OpsOf(lower(ast[1]).ir[1])

\* C23: in the IR that lower returns no object is an argument twice: not of
\* two parents, and not twice of one; translate and rotate put a separate
\* copy of the transformed point at each place of p.
C23_IRIsTree ==
    pc = "lowered" => IsTree(ir[1])

(***************************************************************************)
(* Claims about sweeps and blends along paths (specification SpecPath).    *)
(***************************************************************************)
\* the points of a path with every point equal to the one before it removed
RECURSIVE Deduped(_, _, _)
Deduped(args, k, acc) ==
    IF k > Len(args) THEN acc
    ELSE Deduped(args, k + 1,
             IF acc # << >> /\ VecOf(args[k]) = VecOf(acc[Len(acc)]) THEN acc
             ELSE Append(acc, args[k]))

SweptPath == ast[1].args[2]
SweptProfile == ast[1].args[1]
SweepDone == pc \in {"swept", "lower_failed"} /\ IsCallOf(ast[1], S_sweep, 2)
DistinctPoints == Deduped(SweptPath.args, 1, << >>)

\* C24: a sweep along a line or polyline drops every segment of length zero:
\* its field is the field of the sweep along the path without the repeated
\* points, and when no segment is left lowering fails with "sweep path has
\* no valid segments".
C24_ZeroSegmentsDropped ==
    SweepDone =>
        IF Len(DistinctPoints) >= 2
        THEN /\ pc = "swept"
             /\ ir = lower(Call(S_sweep, <<SweptProfile, Call(S_polyline, DistinctPoints)>>)).ir
        ELSE /\ pc = "lower_failed"
             /\ err = ValueError("sweep path has no valid segments")

\* swept along a path of four points, one of them repeating the one before
C24_Witness ==
    SweepDone /\ pc = "swept" /\ Len(DistinctPoints) = 3 /\ Len(SweptPath.args) = 4

\* the unit tangent of the segment from point a to point b of a path
Tangent(a, b) ==
    [k \in 1..3 |-> FxDiv(VecOf(b)[k] - VecOf(a)[k], FxSqrt(SegLen2(VecOf(a), VecOf(b))))]
Dot3(u, v) == FxMul(u[1], v[1]) + FxMul(u[2], v[2]) + FxMul(u[3], v[3])
\* the tangent of segment i of the path without its repeated points
TangentAt(i) == Tangent(DistinctPoints[i], DistinctPoints[i + 1])
\* k = r * max(0, (1 - t_prev . t_cur) / 2) for the join before segment i
JoinKAt(r, i) == FxMul(r, Max2(0, RDiv(Fx(1) - Dot3(TangentAt(i - 1), TangentAt(i)), 2)))

\* a join is min(cur, seg) or the smooth min, min(cur, seg) - smooth
IsSmin(n) == n.op = "sub" /\ n.args[1].op = "min"
IsJoin(n) == n.op = "min" \/ IsSmin(n)
JoinCur(n) == IF IsSmin(n) THEN n.args[1].args[1] ELSE n.args[1]
JoinSeg(n) == IF IsSmin(n) THEN n.args[1].args[2] ELSE n.args[2]
\* the constant vector c of a node c . q
DotConsts(n) ==
    <<FxOf(n.args[1].args[1].args[1].value[1]), FxOf(n.args[1].args[2].args[1].value[1]),
      FxOf(n.args[2].args[1].value[1])>>
\* max(profile, |q.t|) for the tangent t
IsCapped(seg, t) == seg.op = "max" /\ seg.args[2].op = "abs" /\ DotConsts(seg.args[2].args[1]) = t
\* length(vec3(px, py, z)) - r
IsRadial(n, r) ==
    n.op = "sub" /\ n.args[2] = ir_fx(r) /\ n.args[1].op = "length" /\ n.args[1].args[1].op = "vec3"
RadialZ(n) == n.args[1].args[1].args[3]

\* segment i of nseg of a circle of radius r: capped at both ends of the
\* path, a capsule inside
CircleSegAt(seg, r, i, nseg) ==
    IF i \in {1, nseg}
    THEN IsCapped(seg, TangentAt(i)) /\ IsRadial(seg.args[1], r) /\ RadialZ(seg.args[1]) = ir_fx(0)
    ELSE IsRadial(seg, r) /\ RadialZ(seg).op = "add" /\ DotConsts(RadialZ(seg)) = TangentAt(i)

\* the field of the first i segments of a swept circle
RECURSIVE CircleSweepAt(_, _, _, _)
CircleSweepAt(n, r, i, nseg) ==
    IF i = 1 THEN CircleSegAt(n, r, 1, nseg)
    ELSE /\ IsJoin(n)
         /\ n = (IF JoinKAt(r, i) > 0 THEN _ir_smin(JoinCur(n), JoinSeg(n), JoinKAt(r, i))
                 ELSE ir_binary("min", JoinCur(n), JoinSeg(n), "f32"))
         /\ IsSmin(n) = (JoinKAt(r, i) > 0)
         /\ CircleSegAt(JoinSeg(n), r, i, nseg)
         /\ CircleSweepAt(JoinCur(n), r, i - 1, nseg)

\* the field of the first i segments of a swept polygon
RECURSIVE PolygonSweepAt(_, _)
PolygonSweepAt(n, i) ==
    IF i = 1 THEN IsCapped(n, TangentAt(1)) /\ ~IsRadial(n.args[1], 0)
    ELSE /\ n.op = "min"
         /\ IsCapped(n.args[2], TangentAt(i)) /\ ~IsRadial(n.args[2].args[1], 0)
         /\ PolygonSweepAt(n.args[1], i - 1)

Swept == SweepDone /\ pc = "swept"
SweptCircle == Swept /\ SweptProfile.name = S_circle
SweptPolygon == Swept /\ SweptProfile.name = S_polygon

Blended == pc = "blended" /\ IsCallOf(ast[1], S_blend2D, 3)
BlendPoints == Deduped(ast[1].args[3].args, 1, << >>)
BlendTangentAt(i) == Tangent(BlendPoints[i], BlendPoints[i + 1])
\* the length of segment i, and the length of the path before it
SegLenAt(i) == FxSqrt(SegLen2(VecOf(BlendPoints[i]), VecOf(BlendPoints[i + 1])))
RECURSIVE CumLenAt(_)
CumLenAt(i) == IF i = 1 THEN 0 ELSE CumLenAt(i - 1) + SegLenAt(i - 1)
TotalLen == CumLenAt(Len(BlendPoints))

\* clamp01(v) = min(max(v, 0), 1)
IsClamp01(n) ==
    n.op = "min" /\ n.args[2] = ir_fx(Fx(1)) /\ n.args[1].op = "max" /\ n.args[1].args[2] = ir_fx(0)
\* t_g = (cum + clamp01(t_seg) * len) * (1 / total)
IsGlobalT(t, cum, len, total) ==
    /\ t.op = "mul" /\ t.args[2] = ir_fx(FxDiv(Fx(1), total))
    /\ t.args[1].op = "add" /\ t.args[1].args[1] = ir_fx(cum)
    /\ t.args[1].args[2].op = "mul" /\ t.args[1].args[2].args[2] = ir_fx(len)
    /\ IsClamp01(t.args[1].args[2].args[1])
\* the field of a profile: length(px, py, 0) - r for a circle
IsProfileField(n, profile) ==
    IF profile.name = S_circle
    THEN IsRadial(n, FxOf(profile.args[1].value)) /\ RadialZ(n) = ir_fx(0)
    ELSE n.op = "max"
\* (1 - t) * sdf1 + t * sdf2
IsMix(b, profile1, profile2) ==
    /\ b.op = "add" /\ b.args[1].op = "mul" /\ b.args[2].op = "mul"
    /\ b.args[1].args[1] = ir_binary("sub", ir_fx(Fx(1)), b.args[2].args[1], "f32")
    /\ IsProfileField(b.args[1].args[2], profile1)
    /\ IsProfileField(b.args[2].args[2], profile2)
MixT(b) == b.args[2].args[1]

\* segment i of a blend: max(mix at t_g, |q.t|)
BlendSegAt(seg, i) ==
    /\ IsCapped(seg, BlendTangentAt(i))
    /\ IsMix(seg.args[1], ast[1].args[1], ast[1].args[2])
    /\ IsGlobalT(MixT(seg.args[1]), CumLenAt(i), SegLenAt(i), TotalLen)

\* the field of the first i segments of a blend
RECURSIVE BlendAt(_, _)
BlendAt(n, i) ==
    IF i = 1 THEN BlendSegAt(n, 1)
    ELSE n.op = "min" /\ BlendSegAt(n.args[2], i) /\ BlendAt(n.args[1], i - 1)

\* t_g with clamp01(t_seg) = c on segment i
GlobalTAt(i, c) == FxMul(CumLenAt(i) + FxMul(c, SegLenAt(i)), FxDiv(Fx(1), TotalLen))
\* the rounding of 1 / total, carried by a product with at most total
NearOne(x) == 2 * Abs(x - Fx(1)) <= (TotalLen \div Scale) + 2

InLoop == pc \in {"loop", "returned", "responded"}
Returned == pc \in {"returned", "responded"}
\* the last attempt produced the text dsl_code was stripped from
LastOutputIs(dsl_code) == val[1].reply # None /\ StripFences(val[1].reply[1]) = dsl_code
LastTwo(messages) == SubSeq(messages, Len(messages) - 1, Len(messages))

\* C27: the retry loop calls the LLM at most three times; it returns {code}
\* at the first attempt whose stripped output parses and lowers; after each
\* failed attempt but the last it appends one assistant message, the
\* rejected output, and one user message with the error; after the third
\* failed attempt it returns {error, last_code}, the error and the output
\* of that attempt.
C27_RetryLoop ==
    InLoop =>
        /\ val[1].calls <= max_retries + 1
        /\ Len(val[1].messages) = 2 + 2 * val[1].retry
        /\ (pc = "loop" /\ val[1].retry > 0) =>
              /\ val[1].calls = val[1].retry
              /\ LastTwo(val[1].messages)[1].role = "assistant"
              /\ LastOutputIs(LastTwo(val[1].messages)[1].content)
              /\ LastTwo(val[1].messages)[2] = Feedback(err)
        /\ (Returned /\ val[1].result[1].error = NoErr) =>
              /\ LastOutputIs(val[1].result[1].code)
              /\ Validate(val[1].result[1].code) = NoErr
              /\ val[1].calls = val[1].retry + 1
        /\ (Returned /\ val[1].result[1].error # NoErr) =>
              /\ val[1].calls = max_retries + 1
              /\ val[1].result[1].error = err
              /\ LastOutputIs(val[1].result[1].last_code)

(***************************************************************************)
(* Claims about deep programs (specification SpecDeep).                    *)
(***************************************************************************)
\* the errors of a polygon or a path that does not meet its precondition
GeometryErrors ==
    {ValueError("polygon is self-intersecting"), ValueError("polygon must be convex"),
     ValueError("polygon has invalid edges"), ValueError("sweep path has no valid segments")}

LoweringDone == pc \in {"lowered", "lower_failed"}

\* C28: a program of type field lowers to an IR tree or fails with a
\* ValueError about the geometry of a polygon or a path (self-intersecting,
\* not convex, invalid edges, no valid segments), never with "Unknown
\* expression", an error about a non-literal argument or an exception that
\* is not a ValueError.
C28_LoweringSound ==
    (LoweringDone /\ WellTypedField(ast[1])) =>
        \/ pc = "lowered" /\ ir # None
        \/ pc = "lower_failed" /\ err \in GeometryErrors

ParseDone == pc \in {"parsed", "parse_failed"}
EofTokens == {k \in 1..Len(tokens) : tokens[k].kind = "EOF"}

\* C29: on the tokens of Lexer.tokenize, which end with the only EOF, the
\* parser's index never passes the EOF token, so that _peek reads inside
\* the list, and parse ends with an AST or with a ParserError.
C29_ParserTerminates ==
    ParseDone =>
        /\ EofTokens = {Len(tokens)}
        /\ parse(tokens).i \in 0..(Len(tokens) - 1)
        /\ \/ pc = "parsed" /\ ast # None
           \/ pc = "parse_failed" /\ err.kind = "ParserError"

(***************************************************************************)
(* Claims about the two interpreters (specification Spec).                 *)
(***************************************************************************)
SolidNames == {S_sphere, S_box, S_cylinder, S_union, S_difference, S_translate, S_offset}
\* a tree of numbers, vec3 and calls of the seven names
RECURSIVE BuiltFromSolids(_)
BuiltFromSolids(node) ==
    /\ node.tag \in {"Number", "Vec3", "Call"}
    /\ node.tag = "Call" => node.name \in SolidNames
    /\ \A k \in 1..Len(node.args) : BuiltFromSolids(node.args[k])
SolidProgram == ast[1].tag = "Call" /\ BuiltFromSolids(ast[1])
AstAtPoint == CallEvalExpr(eval_expr(ast[1]), pt)

\* C30: for a source built from sphere, box, cylinder, union, difference,
\* translate and offset and every point p, eval_expr(ast)(p) is the value of
\* eval_ir(lower(ast), {p}).
C30_InterpretersAgree ==
    (Evaluating /\ SolidProgram) =>
        IF pc = "evaluated" THEN AstAtPoint = val[1] ELSE ~AstAtPoint.ok
====
